---- MODULE Spec2Model ----
(***************************************************************************)
(* Model of the OCR-Platform backend: the document processing pipeline     *)
(* (app/api/ocr_routes.py), the document routes that reprocess, edit and   *)
(* read back OCR rows (app/api/document_routes.py), the Tally read path    *)
(* (app/api/tally_routes.py), the credit ledger                            *)
(* (app/services/credit_service.py), the reload of a SELECT field's        *)
(* options from Tally (app/tally/tally_field_options.py) and the type      *)
(* conversions (app/utils/data_conversion.py).                             *)
(*                                                                         *)
(* One Document and one Template are modelled.  Every request handler runs *)
(* in its own SQLAlchemy session: rows added and flushed by a handler stay *)
(* in that session until the handler commits.  The handlers are split at   *)
(* their calls to the extraction service, where other requests interleave. *)
(*                                                                         *)
(* The members of FieldType and DataType are taken as the handlers use     *)
(* them (ocr_routes.py:507, 618).                                          *)
(***************************************************************************)
EXTENDS Integers, Sequences, FiniteSets, TLC

\* ------------------------------------------------------------------ bounds
MaxAttempts == 2
MaxRows == 2
MaxTransactions == 3
MaxEdits == 1
MaxOptions == 6
MaxKeys == 2
MaxRefreshes == 2
MaxLedgers == 2

\* --------------------------------------------------------------- constants
DEFAULT_OCR_COST == 1

\* process.extractBests(..., score_cutoff=40, limit=5), ocr_routes.py lines 53-54
score_cutoff == 40
limit == 5

\* request handlers that may run at the same time (one session each)
Procs == {1, 2}

\* the primary key of the document
DocId == 1

\* DocumentStatus (utils/enums.py)
PENDING == "pending"
PROCESSING == "processing"
PROCESSED == "processed"
FAILED == "failed"
DocumentStatus == {PENDING, PROCESSING, PROCESSED, FAILED}

\* Python None
NULL == "None"

\* a JSON number 10 in a reply, as distinct from the string "10"
NUM10 == "#10"

\* Python str(): a number becomes its decimal text, a string is itself
Str(v) == IF v = NUM10 THEN "10" ELSE v

\* Python truthiness of a stored value: None and "" are falsy
Truthy(v) == v # NULL /\ v # ""

\* Python `a or b`
PyOr(a, b) == IF Truthy(a) THEN a ELSE b

\* ---------------------------------------------------------------- template
\* the non-table fields of the template, in query order
text_fields == <<"vendor_name">>

\* the TABLE fields of the template, in query order
table_fields == <<"item_description", "line_total">>

\* SubTemplateField rows (columns) of a TABLE field
sub_fields(t) == IF t = "item_description" THEN <<"quantity">> ELSE <<"unit_price">>

Range(s) == {s[i] : i \in 1..Len(s)}

\* a row of a table reply: column name -> value (None when absent); the
\* service puts None or the number 10 in a quantity, "2.50" in another cell
RowsOf(t) == {r \in [Range(sub_fields(t)) -> {NULL, NUM10, "2.50"}] :
                \A c \in DOMAIN r :
                    r[c] \in (IF c = "quantity" THEN {NULL, NUM10} ELSE {"2.50"})}

\* the rows arrays a table reply may carry: at most n rows for the first
\* table, one row for the others
RowSeqs(t, n) ==
    IF t = table_fields[1] THEN UNION {[1..k -> RowsOf(t)] : k \in 0..n}
    ELSE [1..1 -> RowsOf(t)]

VARIABLES
    status,                \* Document.status
    processed_at,          \* Document.processed_at is set
    ocr_data,              \* committed OCRData rows, in ocr_id order
    ocr_line_items,        \* committed OCRLineItem rows
    ocr_line_item_values,  \* committed OCRLineItemValue rows
    pc,                    \* per handler: where it stands
    attempt,               \* per handler: number of the attempt it runs
    ti,                    \* per handler: index of the next table field
    ocr_data_records,      \* per handler: OCRData built, not yet added
    session_items,         \* per handler: OCRLineItem rows flushed, not committed
    session_values,        \* per handler: OCRLineItemValue rows added, not committed
    table_data_results,    \* per handler: table field -> mapped rows
    outcome,               \* per handler: what each extraction call did
    attempts,              \* number of attempts started so far
    last_result,           \* the result returned by the last successful attempt
    edits,                 \* number of edits made so far
    credits,               \* User.credits_remaining
    transactions,          \* CreditTransaction rows, in creation order
    select_call,           \* one call of the SELECT reconciliation: inputs and result
    parse_call,            \* one call of parse_gemini_response: reply and result
    convert_call,          \* one call of a type conversion: inputs and results
    field_option_rows,     \* committed FieldOption rows of the SELECT field
    refresh_session,       \* the session of the request that reloads the options
    reconciliation_read,   \* the FieldOption rows the pipeline read last
    vocabularies,          \* the option sets the field has had, in commit order
    ledger_op              \* per request: the credit operation it is in

vars == <<status, processed_at, ocr_data, ocr_line_items, ocr_line_item_values,
          pc, attempt, ti, ocr_data_records, session_items, session_values,
          table_data_results, outcome, attempts, last_result, edits,
          credits, transactions, select_call, parse_call, convert_call,
          field_option_rows, refresh_session, reconciliation_read, vocabularies,
          ledger_op>>

docVars == <<status, processed_at>>
rowVars == <<ocr_data, ocr_line_items, ocr_line_item_values>>
sessVars == <<ocr_data_records, session_items, session_values, table_data_results>>
ledgerVars == <<credits, transactions>>
refreshVars == <<field_option_rows, refresh_session, reconciliation_read, vocabularies>>
otherVars == <<select_call, parse_call, convert_call, refreshVars, ledger_op>>

NoOutcome == [c \in {"flat", "end"} \cup Range(table_fields) |-> "none"]
EmptyTables == [t \in {} |-> <<>>]
NoCall == [done |-> FALSE]

InitBase ==
    /\ status = PENDING
    /\ processed_at = FALSE
    /\ ocr_data = <<>>
    /\ ocr_line_items = {}
    /\ ocr_line_item_values = {}
    /\ pc = [p \in Procs |-> "idle"]
    /\ attempt = [p \in Procs |-> 0]
    /\ ti = [p \in Procs |-> 1]
    /\ ocr_data_records = [p \in Procs |-> <<>>]
    /\ session_items = [p \in Procs |-> {}]
    /\ session_values = [p \in Procs |-> {}]
    /\ table_data_results = [p \in Procs |-> EmptyTables]
    /\ outcome = [p \in Procs |-> NoOutcome]
    /\ attempts = 0
    /\ last_result = [att |-> 0, table_data |-> <<>>]
    /\ edits = 0
    /\ credits = 1
    /\ transactions = <<>>
    /\ field_option_rows = {}
    /\ refresh_session = [pc |-> "idle", n |-> 0, deleted |-> FALSE,
                          ledgers |-> [i \in {} |-> TRUE], added |-> {}, result |-> "none"]
    /\ reconciliation_read = NoCall
    /\ vocabularies = <<{}>>
    /\ ledger_op = [p \in Procs |-> [pc |-> "idle", reference_type |-> "none", cost |-> 0,
                                     amount |-> 0, balance_before |-> 0, message |-> ""]]

Init ==
    /\ InitBase
    /\ select_call = NoCall
    /\ parse_call = NoCall
    /\ convert_call = NoCall

\* ------------------------------------------------ process_document_internal
\* the attempt starts without committing PROCESSING
EnterWithoutCommit(p) ==
    /\ pc[p] \in {"idle", "enter"}
    /\ attempts < MaxAttempts
    /\ attempts' = attempts + 1
    /\ attempt' = [attempt EXCEPT ![p] = attempts + 1]
    /\ pc' = [pc EXCEPT ![p] = "flat"]
    /\ ti' = [ti EXCEPT ![p] = 1]
    /\ ocr_data_records' = [ocr_data_records EXCEPT ![p] = <<>>]
    /\ session_items' = [session_items EXCEPT ![p] = {}]
    /\ session_values' = [session_values EXCEPT ![p] = {}]
    /\ table_data_results' = [table_data_results EXCEPT ![p] = EmptyTables]
    /\ outcome' = [outcome EXCEPT ![p] = NoOutcome]
    /\ UNCHANGED <<status, processed_at, rowVars, last_result, edits, ledgerVars, otherVars>>

\* lines 472-485: the document and template are found, PROCESSING is committed
Enter(p) ==
    /\ pc[p] \in {"idle", "enter"}
    /\ attempts < MaxAttempts
    /\ attempts' = attempts + 1
    /\ attempt' = [attempt EXCEPT ![p] = attempts + 1]
    /\ status' = PROCESSING
    /\ pc' = [pc EXCEPT ![p] = "flat"]
    /\ ti' = [ti EXCEPT ![p] = 1]
    /\ ocr_data_records' = [ocr_data_records EXCEPT ![p] = <<>>]
    /\ session_items' = [session_items EXCEPT ![p] = {}]
    /\ session_values' = [session_values EXCEPT ![p] = {}]
    /\ table_data_results' = [table_data_results EXCEPT ![p] = EmptyTables]
    /\ outcome' = [outcome EXCEPT ![p] = NoOutcome]
    /\ UNCHANGED <<processed_at, rowVars, last_result, edits, ledgerVars, otherVars>>

\* ------------------------------------------------------ the extraction call
\* a Python dict is a sequence of key/value pairs in insertion order
DictKeys(d) == {d[i].key : i \in 1..Len(d)}

\* dict.get: the value under the key, None when the key is absent
DictGet(d, k) ==
    IF k \in DictKeys(d) THEN d[CHOOSE i \in 1..Len(d) : d[i].key = k].value ELSE NULL

\* str.lower() on the keys a reply may carry
Lower(k) == IF k \in {"Vendor_Name", "VENDOR_NAME"} THEN "vendor_name" ELSE k

\* what call_gemini_ocr does for one prompt: it raises, or it returns a text
\* that is no JSON ("garbage"), a JSON scalar, a JSON array of rows ("rows")
\* or a JSON object
FlatReplies ==
    {[kind |-> "raise"], [kind |-> "garbage"]}
    \cup {[kind |-> "object", pairs |-> <<[key |-> text_fields[1], value |-> v]>>] : v \in {NULL, "ACME"}}

TableReplies(t, n) ==
    {[kind |-> "raise"], [kind |-> "garbage"]}
    \cup {[kind |-> "rows", rows |-> r] : r \in RowSeqs(t, n)}

\* gemini_ocr.py lines 236-248: the value of one requested name: the value
\* under the name when it is not None, else the value of the first key equal
\* to the name ignoring case, else None
NormalizedValue(data, field) ==
    IF DictGet(data, field) # NULL THEN DictGet(data, field)
    ELSE LET hits == {i \in 1..Len(data) : Lower(data[i].key) = Lower(field)}
         IN IF hits = {} THEN NULL
            ELSE data[CHOOSE i \in hits : \A j \in hits : i <= j].value

\* the reply text handed to parse_gemini_response: None when the service gave
\* no text ("missing"), the empty string ("empty"), a text that is no JSON
\* ("garbage"), or the text of a JSON value
ResponseText(reply) ==
    IF reply.kind = "missing" THEN NULL
    ELSE IF reply.kind = "empty" THEN ""
    ELSE IF reply.kind = "scalar" THEN "5"
    ELSE "text"

\* gemini_ocr.py lines 216-250: the exception raised inside the try block:
\* None has no strip(), json.loads rejects an empty text and a text that is no
\* JSON, and a JSON scalar has no get(), which is called once per requested name
ParseException(reply, field_names) ==
    IF reply.kind = "missing" THEN "AttributeError"
    ELSE IF reply.kind \in {"empty", "garbage"} THEN "JSONDecodeError"
    ELSE IF reply.kind = "scalar" /\ Len(field_names) > 0 THEN "AttributeError"
    ELSE "none"

\* an exception leaves parse_gemini_response: the handlers at lines 252 and
\* 256 catch JSONDecodeError and every Exception
ParseRaises(reply, field_names) ==
    ParseException(reply, field_names) \notin {"none", "JSONDecodeError", "AttributeError"}

\* parse_gemini_response: the dict it returns
parse_gemini_response(reply, field_names) ==
    IF ParseException(reply, field_names) # "none" /\ ~ParseRaises(reply, field_names)
    THEN <<[key |-> "raw_response", value |-> ResponseText(reply)],
           [key |-> "parse_error", value |-> ParseException(reply, field_names)]>>
    ELSE IF reply.kind = "scalar" THEN <<>>
    ELSE IF reply.kind = "rows" THEN <<[key |-> "rows", value |-> reply.rows]>>
    ELSE IF "rows" \in DictKeys(reply.pairs) THEN reply.pairs
    ELSE [i \in 1..Len(field_names) |->
            [key |-> field_names[i], value |-> NormalizedValue(reply.pairs, field_names[i])]]

\* the subsequence of s whose elements satisfy Keep
RECURSIVE SelectSeqBy(_, _)
SelectSeqBy(s, keep) ==
    IF s = <<>> THEN <<>>
    ELSE IF Head(s) \in keep THEN <<Head(s)>> \o SelectSeqBy(Tail(s), keep)
    ELSE SelectSeqBy(Tail(s), keep)

\* ---------------------------------------------------- SELECT reconciliation
\* FieldOption rows of a field, in query order: option i has label "L<i>" and
\* value "V<i>"
Option(i) == [option_label |-> "L" \o ToString(i), option_value |-> "V" \o ToString(i)]
FieldOptions(n) == [i \in 1..n |-> Option(i)]

\* the best-first order: higher score first, equal scores in list order
\* (heapq.nlargest is stable)
RECURSIVE BestFirst(_, _, _)
BestFirst(S, scores, option_labels) ==
    IF S = {} THEN <<>>
    ELSE LET Better(i, j) ==
                 \/ scores[option_labels[i]] > scores[option_labels[j]]
                 \/ scores[option_labels[i]] = scores[option_labels[j]] /\ i < j
             b == CHOOSE i \in S : \A j \in S \ {i} : Better(i, j)
         IN <<[match |-> option_labels[b], score |-> scores[option_labels[b]]]>>
            \o BestFirst(S \ {b}, scores, option_labels)

\* every label is a candidate, whatever its score
extractBestsNoCutoff(scores, option_labels) ==
    LET all == BestFirst(1..Len(option_labels), scores, option_labels)
    IN SubSeq(all, 1, IF Len(all) < limit THEN Len(all) ELSE limit)

\* process.extractBests, lines 49-55: the labels scoring at least score_cutoff,
\* best first, at most limit of them
extractBests(scores, option_labels) ==
    LET hits == {i \in 1..Len(option_labels) : scores[option_labels[i]] >= score_cutoff}
        all == BestFirst(hits, scores, option_labels)
    IN SubSeq(all, 1, IF Len(all) < limit THEN Len(all) ELSE limit)

\* lines 62-71: value, label and score of the first option with the matched label
MatchOptions(fuzzy_matches, field_options) ==
    [k \in 1..Len(fuzzy_matches) |->
        LET i == CHOOSE i \in 1..Len(field_options) :
                    /\ field_options[i].option_label = fuzzy_matches[k].match
                    /\ \A j \in 1..(i - 1) : field_options[j].option_label # fuzzy_matches[k].match
        IN [value |-> field_options[i].option_value, label |-> field_options[i].option_label,
            similarity_score |-> fuzzy_matches[k].score]]

\* what the disambiguation service does: no API key is configured, the call
\* raises, the reply has no text, or the reply carries a text
Quoted(t) == "'" \o t \o "'"
AnswerTexts(n) ==
    {"NONE", "none", "free text", "L1", Quoted("V1"), Quoted("NONE")}
    \cup {Option(i).option_value : i \in 1..n}
LlmBehaviours(n) ==
    {[kind |-> "no_key"], [kind |-> "raise"], [kind |-> "empty"]}
    \cup {[kind |-> "text", text |-> t] : t \in AnswerTexts(n)}

\* response.text.strip().strip('"\'') on the texts above
Strip(t) == IF t = Quoted("V1") THEN "V1" ELSE IF t = Quoted("NONE") THEN "NONE" ELSE t

\* str.upper() on the texts above
Upper(t) == IF t = "none" THEN "NONE" ELSE IF t = "free text" THEN "FREE TEXT" ELSE t

\* what map_select_field_value returns, and which services it called
Returned(value, fuzzy_called, llm_called) ==
    [value |-> value, fuzzy_called |-> fuzzy_called, llm_called |-> llm_called, raised |-> FALSE]

\* any text is taken for a valid option value
valid_valuesUnchecked(match_options) ==
    {"NONE", "none", "free text", "L1"} \cup {Option(i).option_value : i \in 1..(MaxOptions + 1)}

\* line 126: the option values of the candidates
valid_values(match_options) == {match_options[k].value : k \in 1..Len(match_options)}

\* an exception of the call leaves the function
LlmSelectionUncaught(match_options, llm) ==
    IF llm.kind = "no_key" THEN Returned(match_options[1].value, TRUE, FALSE)
    ELSE IF llm.kind = "raise"
    THEN [value |-> NULL, fuzzy_called |-> TRUE, llm_called |-> TRUE, raised |-> TRUE]
    ELSE IF llm.kind = "text" /\ Strip(llm.text) \in valid_values(match_options)
    THEN Returned(Strip(llm.text), TRUE, TRUE)
    ELSE IF llm.kind = "text" /\ Upper(Strip(llm.text)) = "NONE" THEN Returned(NULL, TRUE, TRUE)
    ELSE Returned(match_options[1].value, TRUE, TRUE)

\* lines 97-148: the call of the disambiguation model and the fallbacks to the
\* best fuzzy match
LlmSelection(match_options, llm) ==
    IF llm.kind = "no_key" THEN Returned(match_options[1].value, TRUE, FALSE)
    ELSE IF llm.kind = "raise" THEN Returned(match_options[1].value, TRUE, TRUE)
    ELSE IF llm.kind = "text" /\ Strip(llm.text) \in valid_values(match_options)
    THEN Returned(Strip(llm.text), TRUE, TRUE)
    ELSE IF llm.kind = "text" /\ Upper(Strip(llm.text)) = "NONE" THEN Returned(NULL, TRUE, TRUE)
    ELSE Returned(match_options[1].value, TRUE, TRUE)

\* map_select_field_value, lines 26-148; scores and llm stand for what the
\* fuzzy scorer and the disambiguation service do on this call
map_select_field_value(ocr_value, field_options, scores, llm) ==
    IF ~Truthy(ocr_value) THEN Returned(NULL, FALSE, FALSE)
    ELSE IF Len(field_options) = 0 THEN Returned(ocr_value, FALSE, FALSE)
    ELSE LET option_labels == [i \in 1..Len(field_options) |-> field_options[i].option_label]
             fuzzy_matches == extractBests(scores, option_labels)
         IN IF Len(fuzzy_matches) = 0 THEN Returned(NULL, TRUE, FALSE)
            ELSE LlmSelection(MatchOptions(fuzzy_matches, field_options), llm)

\* the field is handed to map_select_field_value whether or not it has options
ResolveFieldAlwaysMapped(field_type, field_value, field_options, scores, llm) ==
    LET called == field_type = "select"
        mapped == map_select_field_value(Str(field_value), field_options, scores, llm)
        was_mapped == called /\ mapped.value # NULL
        final_value == IF was_mapped THEN mapped.value ELSE field_value
    IN [final_value |-> final_value, original_value |-> Str(field_value),
        was_mapped |-> was_mapped, predicted_value |-> Str(final_value),
        is_select |-> field_type = "select",
        fuzzy_called |-> called /\ mapped.fuzzy_called,
        llm_called |-> called /\ mapped.llm_called,
        raised |-> called /\ mapped.raised]

\* lines 531-567 (and 610-649 for a cell): what is reported and stored for one
\* field whose extracted value is not None
ResolveField(field_type, field_value, field_options, scores, llm) ==
    LET called == field_type = "select" /\ Len(field_options) > 0
        mapped == map_select_field_value(Str(field_value), field_options, scores, llm)
        was_mapped == called /\ mapped.value # NULL
        final_value == IF was_mapped THEN mapped.value ELSE field_value
    IN [final_value |-> final_value, original_value |-> Str(field_value),
        was_mapped |-> was_mapped, predicted_value |-> Str(final_value),
        is_select |-> field_type = "select",
        fuzzy_called |-> called /\ mapped.fuzzy_called,
        llm_called |-> called /\ mapped.llm_called,
        raised |-> called /\ mapped.raised]

\* the type of a field or column of the template, and the scorer and service
\* behaviour of a call that is never made
FieldTypeOf(f) == "text"
DataTypeOf(c) == "string"
NoScores == [l \in {} |-> 0]
NoLlm == [kind |-> "no_key"]

\* lines 530-562: one OCRData per text field whose value is not None
BuildOcrDataRecords(parsed, att) ==
    LET present == {f \in Range(text_fields) : DictGet(parsed, f) # NULL}
        names == SelectSeqBy(text_fields, present)
    IN [i \in 1..Len(names) |->
          [field |-> names[i],
           predicted_value |-> ResolveField(FieldTypeOf(names[i]), DictGet(parsed, names[i]),
                                            <<>>, NoScores, NoLlm).predicted_value,
           actual_value |-> NULL, att |-> att]]

SetMax(S) == IF S = {} THEN 0 ELSE CHOOSE m \in S : \A x \in S : x <= m

\* the primary key the database gives the next OCRLineItem (SQLite rowid)
NextItemId ==
    1 + SetMax({r.ocr_items_id : r \in ocr_line_items \cup UNION {session_items[p] : p \in Procs}})

\* lines 691-700: the except handler sets FAILED and commits the session, and
\* with it every row the attempt had already added and flushed
ExceptHandler(p) ==
    /\ status' = FAILED
    /\ ocr_line_items' = ocr_line_items \cup session_items[p]
    /\ ocr_line_item_values' = ocr_line_item_values \cup session_values[p]
    /\ session_items' = [session_items EXCEPT ![p] = {}]
    /\ session_values' = [session_values EXCEPT ![p] = {}]
    /\ pc' = [pc EXCEPT ![p] = "idle"]
    /\ UNCHANGED <<processed_at, ocr_data, ocr_data_records, table_data_results, ti>>

\* lines 487-491, 523-527: an early return commits FAILED
FailEarly(p) ==
    /\ status' = FAILED
    /\ pc' = [pc EXCEPT ![p] = "idle"]
    /\ UNCHANGED <<processed_at, rowVars, sessVars, ti>>

\* lines 487-567: file check, template fields, flat-field call, parse, OCRData
\* records built
FlatCall(p) ==
    /\ pc[p] = "flat"
    /\ \E file_exists \in BOOLEAN, template_fields \in BOOLEAN, reply \in FlatReplies :
         IF ~file_exists
         THEN /\ FailEarly(p)
              /\ outcome' = [outcome EXCEPT ![p]["end"] = "no_file"]
         ELSE IF ~template_fields
         THEN /\ FailEarly(p)
              /\ outcome' = [outcome EXCEPT ![p]["end"] = "no_fields"]
         ELSE IF reply.kind = "raise"
         THEN /\ ExceptHandler(p)
              /\ outcome' = [outcome EXCEPT ![p]["flat"] = reply.kind, ![p]["end"] = "exception"]
         ELSE LET extracted_fields == parse_gemini_response(reply, text_fields)
              IN IF "parse_error" \in DictKeys(extracted_fields)
                 THEN /\ FailEarly(p)
                      /\ outcome' = [outcome EXCEPT ![p]["flat"] = reply.kind,
                                                     ![p]["end"] = "parse_error"]
                 ELSE /\ ocr_data_records' = [ocr_data_records EXCEPT ![p] =
                             BuildOcrDataRecords(extracted_fields, attempt[p])]
                      /\ pc' = [pc EXCEPT ![p] = "table"]
                      /\ outcome' = [outcome EXCEPT ![p]["flat"] = reply.kind]
                      /\ UNCHANGED <<docVars, rowVars, session_items,
                                     session_values, table_data_results, ti>>
    /\ UNCHANGED <<attempt, attempts, last_result, edits, ledgerVars, otherVars>>

\* a parse error on a table reply treated like one on the flat-field reply
TableParseErrorFatal(p, t) ==
    /\ status' = FAILED
    /\ pc' = [pc EXCEPT ![p] = "idle"]
    /\ UNCHANGED <<processed_at, rowVars, sessVars, ti>>

\* lines 581-586: a parse error on a table reply skips that table
TableParseError(p, t) ==
    /\ ti' = [ti EXCEPT ![p] = ti[p] + 1]
    /\ UNCHANGED <<docVars, rowVars, sessVars, pc>>

\* lines 596-604: one OCRLineItem per row, row_index from enumerate
NewLineItems(t, rows, att) ==
    {[ocr_items_id |-> NextItemId + i - 1, field |-> t, row_index |-> i - 1, att |-> att]
        : i \in 1..Len(rows)}

\* lines 610-649: one OCRLineItemValue per cell that is not None
NewLineItemValues(t, rows, att) ==
    {[ocr_items_id |-> NextItemId + i - 1, sub_field |-> c,
      predicted_value |-> ResolveField(DataTypeOf(c), rows[i][c], <<>>, NoScores, NoLlm).predicted_value,
      actual_value |-> NULL, att |-> att]
        : <<i, c>> \in {ic \in (1..Len(rows)) \X Range(sub_fields(t)) : rows[ic[1]][ic[2]] # NULL}}

\* lines 606-652: the row as returned, without the None cells
MappedRow(t, row_data) ==
    [c \in {k \in Range(sub_fields(t)) : row_data[k] # NULL} |->
        ResolveField(DataTypeOf(c), row_data[c], <<>>, NoScores, NoLlm).final_value]

\* lines 588-660: rows stored in the session, mapped rows kept for the response
TableRows(p, t, rows) ==
    /\ session_items' = [session_items EXCEPT ![p] = @ \cup NewLineItems(t, rows, attempt[p])]
    /\ session_values' = [session_values EXCEPT ![p] = @ \cup NewLineItemValues(t, rows, attempt[p])]
    /\ table_data_results' = [table_data_results EXCEPT ![p] =
          [u \in DOMAIN @ \cup {t} |->
              IF u = t THEN [i \in 1..Len(rows) |-> MappedRow(t, rows[i])] ELSE @[u]]]
    /\ ti' = [ti EXCEPT ![p] = ti[p] + 1]
    /\ UNCHANGED <<docVars, rowVars, ocr_data_records, pc>>

\* lines 569-660: one TABLE field: call, parse, store
TableCall(p, n) ==
    /\ pc[p] = "table"
    /\ ti[p] <= Len(table_fields)
    /\ LET t == table_fields[ti[p]]
       IN \E reply \in TableReplies(t, n) :
            IF reply.kind = "raise"
            THEN /\ ExceptHandler(p)
                 /\ outcome' = [outcome EXCEPT ![p][t] = reply.kind, ![p]["end"] = "exception"]
            ELSE /\ outcome' = [outcome EXCEPT ![p][t] = reply.kind]
                 /\ LET table_data == parse_gemini_response(reply, sub_fields(t))
                    IN IF "parse_error" \in DictKeys(table_data) THEN TableParseError(p, t)
                       ELSE IF "rows" \in DictKeys(table_data)
                       THEN TableRows(p, t, DictGet(table_data, "rows"))
                       ELSE /\ ti' = [ti EXCEPT ![p] = ti[p] + 1]
                            /\ UNCHANGED <<docVars, rowVars, sessVars, pc>>
    /\ UNCHANGED <<attempt, attempts, last_result, edits, ledgerVars, otherVars>>

\* format_table_data_for_response: field name -> rows and row_count
format_table_data_for_response(results) ==
    [t \in DOMAIN results |-> [rows |-> results[t], row_count |-> Len(results[t])]]

\* lines 674, 691-698: the final commit raises; the session has lost its
\* transaction, so the commit of FAILED in the except handler raises as well
\* and is swallowed: nothing of the attempt is stored, the stored status stays
PersistError(p) ==
    /\ pc' = [pc EXCEPT ![p] = "idle"]
    /\ session_items' = [session_items EXCEPT ![p] = {}]
    /\ session_values' = [session_values EXCEPT ![p] = {}]
    /\ outcome' = [outcome EXCEPT ![p]["end"] = "persist_error"]
    /\ UNCHANGED <<docVars, rowVars, last_result>>

\* lines 662-689: OCRData added, PROCESSED and processed_at set, one commit
Finish(p) ==
    /\ pc[p] = "table"
    /\ ti[p] > Len(table_fields)
    /\ \E commit_raises \in BOOLEAN :
          IF commit_raises THEN PersistError(p)
          ELSE /\ ocr_data' = ocr_data \o ocr_data_records[p]
               /\ ocr_line_items' = ocr_line_items \cup session_items[p]
               /\ ocr_line_item_values' = ocr_line_item_values \cup session_values[p]
               /\ status' = PROCESSED
               /\ processed_at' = TRUE
               /\ last_result' = [att |-> attempt[p],
                                  table_data |-> format_table_data_for_response(table_data_results[p])]
               /\ pc' = [pc EXCEPT ![p] = "idle"]
               /\ session_items' = [session_items EXCEPT ![p] = {}]
               /\ session_values' = [session_values EXCEPT ![p] = {}]
               /\ outcome' = [outcome EXCEPT ![p]["end"] = "ok"]
    /\ UNCHANGED <<attempt, attempts, ti, ocr_data_records, table_data_results,
                   edits, ledgerVars, otherVars>>

\* ---------------------------------------------------------- document routes
\* reprocess_document, lines 458-471: bulk delete of the document's OCRData and
\* OCRLineItem rows (Query.delete() issues one DELETE and runs no ORM cascade),
\* then PENDING with processed_at cleared; process_document_internal follows
Reprocess(p) ==
    /\ pc[p] = "idle"
    /\ attempts < MaxAttempts
    /\ ocr_data' = <<>>
    /\ ocr_line_items' = {}
    /\ status' = PENDING
    /\ processed_at' = FALSE
    /\ pc' = [pc EXCEPT ![p] = "enter"]
    /\ UNCHANGED <<ocr_line_item_values, attempt, ti, sessVars, outcome, attempts,
                   last_result, edits, ledgerVars, otherVars>>

\* update_document, lines 281-298: the status is set to whatever was sent
UpdateDocument(new_status) ==
    /\ status' = new_status
    /\ UNCHANGED <<processed_at, rowVars, pc, attempt, ti, sessVars, outcome, attempts,
                   last_result, edits, ledgerVars, otherVars>>

\* values a user may type into a field or a cell
EditVals == {"", "EDIT"}

\* update_field_value, lines 512-521: the first OCRData row of the field gets
\* the new actual_value
UpdateFieldValue(f, new_value) ==
    /\ edits < MaxEdits
    /\ \E i \in 1..Len(ocr_data) :
          /\ ocr_data[i].field = f
          /\ \A j \in 1..(i - 1) : ocr_data[j].field # f
          /\ ocr_data' = [ocr_data EXCEPT ![i].actual_value = new_value]
    /\ edits' = edits + 1
    /\ UNCHANGED <<docVars, ocr_line_items, ocr_line_item_values, pc, attempt, ti, sessVars,
                   outcome, attempts, last_result, ledgerVars, otherVars>>

\* update_table_cell_value, lines 576-595: the first line item with that
\* row_index, and its first value for that column, get the new actual_value;
\* the row a query without ORDER BY returns first is the one inserted first
UpdateTableCellValue(t, row_index, c, new_value) ==
    /\ edits < MaxEdits
    /\ LET items == {r \in ocr_line_items : r.field = t /\ r.row_index = row_index}
           FirstItem == CHOOSE r \in items : \A q \in items : r.ocr_items_id <= q.ocr_items_id
       IN /\ items # {}
          /\ LET cells == {v \in ocr_line_item_values :
                              v.ocr_items_id = FirstItem.ocr_items_id /\ v.sub_field = c}
                 FirstValue == CHOOSE v \in cells : \A w \in cells : v.att <= w.att
             IN /\ cells # {}
                /\ ocr_line_item_values' = (ocr_line_item_values \ {FirstValue})
                       \cup {[FirstValue EXCEPT !.actual_value = new_value]}
    /\ edits' = edits + 1
    /\ UNCHANGED <<docVars, ocr_data, ocr_line_items, pc, attempt, ti, sessVars,
                   outcome, attempts, last_result, ledgerVars, otherVars>>

\* a user edit of a field or of a cell
Edit ==
    \E v \in EditVals :
        \/ \E f \in Range(text_fields) : UpdateFieldValue(f, v)
        \/ \E t \in Range(table_fields), i \in 0..MaxRows, c \in {"quantity", "unit_price"} :
              c \in Range(sub_fields(t)) /\ UpdateTableCellValue(t, i, c, v)

\* ---------------------------------------------------------------- read paths
\* the line items of a table field ordered by row_index (ties in insertion order)
RECURSIVE OrderByRowIndex(_)
OrderByRowIndex(S) ==
    IF S = {} THEN <<>>
    ELSE LET m == CHOOSE r \in S : \A q \in S :
                     \/ r.row_index < q.row_index
                     \/ r.row_index = q.row_index /\ r.ocr_items_id <= q.ocr_items_id
         IN <<m>> \o OrderByRowIndex(S \ {m})

\* the value shown for a row by the read path `path`: actual_value or
\* predicted_value (document_routes.py lines 42, 430), predicted_value or
\* actual_value (tally_routes.py lines 48, 93)
Pick(path, v) ==
    IF path = "tally" THEN PyOr(v.predicted_value, v.actual_value)
    ELSE PyOr(v.actual_value, v.predicted_value)

\* document_routes.py lines 38-43: the row_data dict of one line item; a later
\* value of the same column overwrites an earlier one
RowData(line_item, path) ==
    LET cells == {v \in ocr_line_item_values : v.ocr_items_id = line_item.ocr_items_id}
        last(c) == CHOOSE v \in cells : v.sub_field = c /\
                      \A w \in cells : w.sub_field = c => w.att <= v.att
    IN [c \in {v.sub_field : v \in cells} |-> Pick(path, last(c))]

\* reconstruct_table_data_from_db, the loop over the table fields that have
\* line items
ReconstructWith(path) ==
    LET present == {r.field : r \in ocr_line_items}
        rowsOf(t) == LET items == OrderByRowIndex({r \in ocr_line_items : r.field = t})
                     IN [i \in 1..Len(items) |-> RowData(items[i], path)]
    IN [t \in present |-> [rows |-> rowsOf(t), row_count |-> Len(rowsOf(t))]]

\* document_routes.py lines 11-63
reconstruct_table_data_from_db == ReconstructWith("document")

\* tally_routes.py lines 62-114
tally_reconstruct_table_data_from_db == ReconstructWith("tally")

\* the extracted_data dict of a read: a later row of a field overwrites an
\* earlier one
ExtractedData(path) ==
    LET last(f) == CHOOSE i \in 1..Len(ocr_data) : ocr_data[i].field = f /\
                      \A j \in (i + 1)..Len(ocr_data) : ocr_data[j].field # f
    IN [f \in {ocr_data[i].field : i \in 1..Len(ocr_data)} |-> Pick(path, ocr_data[last(f)])]

\* get_document_ocr_results, document_routes.py lines 416-446
get_document_ocr_results ==
    [extracted_data |-> ExtractedData("document"), table_data |-> reconstruct_table_data_from_db]

\* get_document_ocr_data, tally_routes.py lines 33-60
get_document_ocr_data ==
    [extracted_data |-> ExtractedData("tally"),
     table_data |-> tally_reconstruct_table_data_from_db]

\* ------------------------------------------------------------ credit ledger
\* deduct_credits_for_ocr, credit_service.py lines 39-100, with the default cost
deduct_credits_for_ocr ==
    /\ Len(transactions) < MaxTransactions
    /\ credits >= DEFAULT_OCR_COST
    /\ transactions' = Append(transactions,
          [amount |-> 0 - DEFAULT_OCR_COST, balance_before |-> credits,
           balance_after |-> credits - DEFAULT_OCR_COST,
           reference_type |-> "document", reference_id |-> DocId])
    /\ credits' = credits - DEFAULT_OCR_COST
    /\ UNCHANGED <<docVars, rowVars, pc, attempt, ti, sessVars, outcome, attempts,
                   last_result, edits, otherVars>>

\* lines 112-116: the latest deduction of that user and document
OriginalTransaction ==
    LET hits == {i \in 1..Len(transactions) :
                    /\ transactions[i].reference_type = "document"
                    /\ transactions[i].reference_id = DocId
                    /\ transactions[i].amount < 0}
    IN IF hits = {} THEN 0 ELSE SetMax(hits)

\* refund_credits_for_failed_ocr, credit_service.py lines 102-164
refund_credits_for_failed_ocr ==
    /\ Len(transactions) < MaxTransactions
    /\ OriginalTransaction # 0
    /\ LET refund_amount == 0 - transactions[OriginalTransaction].amount
       IN /\ transactions' = Append(transactions,
                [amount |-> refund_amount, balance_before |-> credits,
                 balance_after |-> credits + refund_amount,
                 reference_type |-> "document_refund", reference_id |-> DocId])
          /\ credits' = credits + refund_amount
    /\ UNCHANGED <<docVars, rowVars, pc, attempt, ti, sessVars, outcome, attempts,
                   last_result, edits, otherVars>>

\* add_credits_to_user, credit_service.py lines 166-215
add_credits_to_user(amount) ==
    /\ Len(transactions) < MaxTransactions
    /\ amount > 0
    /\ transactions' = Append(transactions,
          [amount |-> amount, balance_before |-> credits,
           balance_after |-> credits + amount,
           reference_type |-> "manual_addition", reference_id |-> 0])
    /\ credits' = credits + amount
    /\ UNCHANGED <<docVars, rowVars, pc, attempt, ti, sessVars, outcome, attempts,
                   last_result, edits, otherVars>>

\* the steps of the same operations when two requests run them at once: each
\* request reads the user in its own session, and its UPDATE and INSERT reach
\* the database at commit_or_rollback
\* deduct_credits_for_ocr, lines 50-83: the user is read, the balance checked
\* and the transaction built
DeductCreditsUnchecked(p, cost) ==
    /\ ledger_op[p].pc = "idle"
    /\ Len(transactions) + Cardinality({q \in Procs : ledger_op[q].pc = "pending"}) < MaxTransactions
    /\ ledger_op' = [ledger_op EXCEPT ![p] =
          [pc |-> "pending", reference_type |-> "document", cost |-> cost,
           amount |-> 0 - cost, balance_before |-> credits, message |-> ""]]
    /\ UNCHANGED <<docVars, rowVars, pc, attempt, ti, sessVars, outcome, attempts,
                   last_result, edits, ledgerVars, select_call, parse_call, convert_call,
                   refreshVars>>

DeductCredits(p, cost) ==
    /\ ledger_op[p].pc = "idle"
    /\ Len(transactions) + Cardinality({q \in Procs : ledger_op[q].pc = "pending"}) < MaxTransactions
    /\ ledger_op' = [ledger_op EXCEPT ![p] =
          IF credits < cost
          THEN [pc |-> "idle", reference_type |-> "document", cost |-> cost,
                amount |-> 0, balance_before |-> credits, message |-> "Insufficient credits"]
          ELSE [pc |-> "pending", reference_type |-> "document", cost |-> cost,
                amount |-> 0 - cost, balance_before |-> credits, message |-> ""]]
    /\ UNCHANGED <<docVars, rowVars, pc, attempt, ti, sessVars, outcome, attempts,
                   last_result, edits, ledgerVars, select_call, parse_call, convert_call,
                   refreshVars>>

\* refund_credits_for_failed_ocr, lines 110-147
RefundCredits(p) ==
    /\ ledger_op[p].pc = "idle"
    /\ Len(transactions) + Cardinality({q \in Procs : ledger_op[q].pc = "pending"}) < MaxTransactions
    /\ ledger_op' = [ledger_op EXCEPT ![p] =
          IF OriginalTransaction = 0
          THEN [pc |-> "idle", reference_type |-> "document_refund", cost |-> 0,
                amount |-> 0, balance_before |-> credits,
                message |-> "No deduction transaction found for this document"]
          ELSE [pc |-> "pending", reference_type |-> "document_refund", cost |-> 0,
                amount |-> 0 - transactions[OriginalTransaction].amount,
                balance_before |-> credits, message |-> ""]]
    /\ UNCHANGED <<docVars, rowVars, pc, attempt, ti, sessVars, outcome, attempts,
                   last_result, edits, ledgerVars, select_call, parse_call, convert_call,
                   refreshVars>>

\* add_credits_to_user, lines 174-199
AddCredits(p, amount) ==
    /\ ledger_op[p].pc = "idle"
    /\ Len(transactions) + Cardinality({q \in Procs : ledger_op[q].pc = "pending"}) < MaxTransactions
    /\ ledger_op' = [ledger_op EXCEPT ![p] =
          IF amount <= 0
          THEN [pc |-> "idle", reference_type |-> "manual_addition", cost |-> 0,
                amount |-> 0, balance_before |-> credits, message |-> "Amount must be positive"]
          ELSE [pc |-> "pending", reference_type |-> "manual_addition", cost |-> 0,
                amount |-> amount, balance_before |-> credits, message |-> ""]]
    /\ UNCHANGED <<docVars, rowVars, pc, attempt, ti, sessVars, outcome, attempts,
                   last_result, edits, ledgerVars, select_call, parse_call, convert_call,
                   refreshVars>>

\* base_service.py lines 8-17 and the lines that follow it in each operation:
\* the commit writes the balance the request computed and its transaction row;
\* a commit that raises is rolled back
commit_or_rollback(p) ==
    /\ ledger_op[p].pc = "pending"
    /\ \E commit_raises \in BOOLEAN :
          IF commit_raises
          THEN /\ ledger_op' = [ledger_op EXCEPT ![p].pc = "idle",
                                                 ![p].message = "Failed to save transaction"]
               /\ UNCHANGED ledgerVars
          ELSE /\ credits' = ledger_op[p].balance_before + ledger_op[p].amount
               /\ transactions' = Append(transactions,
                     [amount |-> ledger_op[p].amount,
                      balance_before |-> ledger_op[p].balance_before,
                      balance_after |-> ledger_op[p].balance_before + ledger_op[p].amount,
                      reference_type |-> ledger_op[p].reference_type,
                      reference_id |-> IF ledger_op[p].reference_type = "manual_addition"
                                       THEN 0 ELSE DocId])
               /\ ledger_op' = [ledger_op EXCEPT ![p].pc = "idle", ![p].message = "ok"]
    /\ UNCHANGED <<docVars, rowVars, pc, attempt, ti, sessVars, outcome, attempts,
                   last_result, edits, select_call, parse_call, convert_call, refreshVars>>

\* ------------------------------------------------- reload of a field's options
\* load_ledgers_as_options (tally/tally_field_options.py) runs in the session of
\* its request: its DELETE and INSERTs are seen by other sessions when it
\* commits.  Ledger i of Tally has the name Option(i).option_value and the alias
\* Option(i).option_label.
\* lines 134-148: the options of the active ledgers
ActiveOptions(ledgers) == {Option(i) : i \in {k \in DOMAIN ledgers : ledgers[k]}}

\* the delete of lines 119-121 committed at once
ClearExistingCommitted ==
    /\ refresh_session.pc = "idle"
    /\ refresh_session.n < MaxRefreshes
    /\ field_option_rows' = {}
    /\ refresh_session' = [refresh_session EXCEPT !.pc = "deleted", !.n = @ + 1,
                              !.deleted = FALSE, !.added = {}, !.result = "none"]
    /\ UNCHANGED <<docVars, rowVars, pc, attempt, ti, sessVars, outcome, attempts,
                   last_result, edits, ledgerVars, select_call, parse_call, convert_call,
                   reconciliation_read, vocabularies, ledger_op>>

\* lines 109-121: the field is a SELECT field; its options are deleted and the
\* delete is flushed
ClearExisting ==
    /\ refresh_session.pc = "idle"
    /\ refresh_session.n < MaxRefreshes
    /\ refresh_session' = [refresh_session EXCEPT !.pc = "deleted", !.n = @ + 1,
                              !.deleted = TRUE, !.added = {}, !.result = "none"]
    /\ UNCHANGED <<docVars, rowVars, pc, attempt, ti, sessVars, outcome, attempts,
                   last_result, edits, ledgerVars, select_call, parse_call, convert_call,
                   field_option_rows, reconciliation_read, vocabularies, ledger_op>>

\* lines 123-126 and 163-171: the ledgers are fetched from Tally; when the fetch
\* raises, the session is rolled back
FetchLedgers ==
    /\ refresh_session.pc = "deleted"
    /\ \E raises \in BOOLEAN, listed \in SUBSET (1..MaxLedgers) :
          IF raises
          THEN refresh_session' = [refresh_session EXCEPT !.pc = "idle", !.deleted = FALSE,
                                      !.result = "failed"]
          ELSE \E ledgers \in [listed -> BOOLEAN] :
                  refresh_session' = [refresh_session EXCEPT !.pc = "adding", !.ledgers = ledgers]
    /\ UNCHANGED <<docVars, rowVars, pc, attempt, ti, sessVars, outcome, attempts,
                   last_result, edits, ledgerVars, select_call, parse_call, convert_call,
                   field_option_rows, reconciliation_read, vocabularies, ledger_op>>

\* lines 134-148: one turn of the loop adds the option of the next active ledger
AddOption ==
    /\ refresh_session.pc = "adding"
    /\ \E i \in DOMAIN refresh_session.ledgers :
          /\ refresh_session.ledgers[i]
          /\ Option(i) \notin refresh_session.added
          /\ \A k \in DOMAIN refresh_session.ledgers :
                (refresh_session.ledgers[k] /\ k < i) => Option(k) \in refresh_session.added
          /\ refresh_session' = [refresh_session EXCEPT !.added = @ \cup {Option(i)}]
    /\ UNCHANGED <<docVars, rowVars, pc, attempt, ti, sessVars, outcome, attempts,
                   last_result, edits, ledgerVars, select_call, parse_call, convert_call,
                   field_option_rows, reconciliation_read, vocabularies, ledger_op>>

\* lines 150 and 168-171: the commit after the loop; a commit that raises is
\* rolled back
CommitOptions ==
    /\ refresh_session.pc = "adding"
    /\ ActiveOptions(refresh_session.ledgers) \subseteq refresh_session.added
    /\ \E commit_raises \in BOOLEAN :
          IF commit_raises
          THEN /\ refresh_session' = [refresh_session EXCEPT !.pc = "idle", !.deleted = FALSE,
                                         !.added = {}, !.result = "failed"]
               /\ UNCHANGED <<field_option_rows, vocabularies>>
          ELSE /\ field_option_rows' =
                     (IF refresh_session.deleted THEN {} ELSE field_option_rows)
                        \cup refresh_session.added
               /\ vocabularies' = Append(vocabularies, ActiveOptions(refresh_session.ledgers))
               /\ refresh_session' = [refresh_session EXCEPT !.pc = "idle", !.deleted = FALSE,
                                         !.added = {}, !.result = "loaded"]
    /\ UNCHANGED <<docVars, rowVars, pc, attempt, ti, sessVars, outcome, attempts,
                   last_result, edits, ledgerVars, select_call, parse_call, convert_call,
                   reconciliation_read, ledger_op>>

\* ocr_routes.py line 540 (and 620): the pipeline reads the options of the field
\* in its own session
ReadFieldOptions ==
    /\ reconciliation_read' = [done |-> TRUE, field_options |-> field_option_rows,
                               refresh_pc |-> refresh_session.pc]
    /\ UNCHANGED <<docVars, rowVars, pc, attempt, ti, sessVars, outcome, attempts,
                   last_result, edits, ledgerVars, select_call, parse_call, convert_call,
                   field_option_rows, refresh_session, vocabularies, ledger_op>>

\* ============================================================ type coercion
\* Python values of utils/data_conversion.py: a value is a tuple that starts
\* with its type: <<"NoneType">>, <<"str", characters>>, <<"int", n>>,
\* <<"bool", b>>, <<"float", m, e>> for m * 10^e with m not a multiple of 10
\* (<<"float", name>> for nan and inf), <<"Decimal", coefficient, exponent>>
\* and <<"datetime", year, month, day>>
PyNone == <<"NoneType">>
PyStr(chars) == <<"str", chars>>
TypeOf(v) == v[1]

DigitChars == <<"0", "1", "2", "3", "4", "5", "6", "7", "8", "9">>
UpperLetters == <<"A", "B", "C", "D", "E", "F", "G", "H", "I", "J", "K", "L", "M", "N", "O", "P", "Q", "R", "S", "T", "U", "V", "W", "X", "Y", "Z">>
LowerLetters == <<"a", "b", "c", "d", "e", "f", "g", "h", "i", "j", "k", "l", "m", "n", "o", "p", "q", "r", "s", "t", "u", "v", "w", "x", "y", "z">>

IsDigit(c) == \E i \in 1..10 : DigitChars[i] = c

\* str.lower()
CharsLower(s) ==
    [i \in 1..Len(s) |->
        IF \E k \in 1..26 : UpperLetters[k] = s[i]
        THEN LowerLetters[CHOOSE k \in 1..26 : UpperLetters[k] = s[i]]
        ELSE s[i]]

\* the number written by a sequence of digits, and the digits of a number
RECURSIVE NumberOf(_)
NumberOf(s) ==
    IF s = <<>> THEN 0
    ELSE 10 * NumberOf(SubSeq(s, 1, Len(s) - 1)) + (CHOOSE i \in 1..10 : DigitChars[i] = s[Len(s)]) - 1

RECURSIVE DigitsOf(_)
DigitsOf(n) ==
    IF n < 10 THEN <<DigitChars[n + 1]>>
    ELSE DigitsOf(n \div 10) \o <<DigitChars[(n % 10) + 1]>>

\* the digits of n, zero-padded on the left to the width
ZeroPadded(n, width) ==
    IF Len(DigitsOf(n)) >= width THEN DigitsOf(n)
    ELSE [i \in 1..(width - Len(DigitsOf(n))) |-> "0"] \o DigitsOf(n)

\* str.strip()
RECURSIVE CharsStrip(_)
CharsStrip(s) ==
    IF s = <<>> THEN s
    ELSE IF s[1] = " " THEN CharsStrip(Tail(s))
    ELSE IF s[Len(s)] = " " THEN CharsStrip(SubSeq(s, 1, Len(s) - 1))
    ELSE s

\* `c in s`, and s.replace(c, '')
Contains(s, c) == \E i \in 1..Len(s) : s[i] = c

RECURSIVE Without(_, _)
Without(s, c) ==
    IF s = <<>> THEN s
    ELSE IF s[1] = c THEN Without(Tail(s), c)
    ELSE <<s[1]>> \o Without(Tail(s), c)

\* the length of the run of digits of s that starts at position i
RECURSIVE DigitRun(_, _)
DigitRun(s, i) ==
    IF i <= Len(s) /\ IsDigit(s[i]) THEN 1 + DigitRun(s, i + 1) ELSE 0

\* an optional sign in front of a literal
Unsigned(s) == IF s # <<>> /\ s[1] \in {"+", "-"} THEN Tail(s) ELSE s
SignOf(s) == IF s # <<>> /\ s[1] = "-" THEN -1 ELSE 1

\* int(s): an optional sign and digits, ValueError otherwise
IntLiteral(s) ==
    IF Unsigned(s) # <<>> /\ DigitRun(Unsigned(s), 1) = Len(Unsigned(s))
    THEN [exception |-> "none", value |-> <<"int", SignOf(s) * NumberOf(Unsigned(s))>>]
    ELSE [exception |-> "ValueError", value |-> PyNone]

\* the decimal literal read by float() and Decimal(): digits, an optional
\* fraction, an optional exponent
ScanNumber(s) ==
    LET t == Unsigned(s)
        ip == DigitRun(t, 1)
        hasDot == ip + 1 <= Len(t) /\ t[ip + 1] = "."
        fp == IF hasDot THEN DigitRun(t, ip + 2) ELSE 0
        afterFrac == ip + 1 + (IF hasDot THEN 1 + fp ELSE 0)
        hasExp == afterFrac <= Len(t) /\ t[afterFrac] \in {"e", "E"}
        expSigned == hasExp /\ afterFrac + 1 <= Len(t) /\ t[afterFrac + 1] \in {"+", "-"}
        expStart == afterFrac + 1 + (IF expSigned THEN 1 ELSE 0)
        ep == IF hasExp THEN DigitRun(t, expStart) ELSE 0
        end == IF hasExp THEN expStart + ep ELSE afterFrac
        expSign == IF expSigned /\ t[afterFrac + 1] = "-" THEN -1 ELSE 1
        digits == SubSeq(t, 1, ip) \o (IF hasDot THEN SubSeq(t, ip + 2, ip + 1 + fp) ELSE <<>>)
    IN [ok |-> ip + fp > 0 /\ (hasExp => ep > 0) /\ end = Len(t) + 1,
        coefficient |-> SignOf(s) * NumberOf(digits),
        exponent |-> (IF hasExp THEN expSign * NumberOf(SubSeq(t, expStart, expStart + ep - 1)) ELSE 0) - fp]

\* m * 10^e with the trailing zeros of m moved into e
RECURSIVE Normalized(_, _)
Normalized(m, e) ==
    IF m = 0 THEN <<"float", 0, 0>>
    ELSE IF m % 10 = 0 THEN Normalized(m \div 10, e + 1)
    ELSE <<"float", m, e>>

\* float(s)
FloatLiteral(s) ==
    IF CharsLower(Unsigned(s)) \in {<<"n", "a", "n">>, <<"i", "n", "f">>, <<"i", "n", "f", "i", "n", "i", "t", "y">>}
    THEN [exception |-> "none", value |-> <<"float", CharsLower(s)>>]
    ELSE IF ScanNumber(s).ok
    THEN [exception |-> "none", value |-> Normalized(ScanNumber(s).coefficient, ScanNumber(s).exponent)]
    ELSE [exception |-> "ValueError", value |-> PyNone]

\* ------------------------------------------------------- parse_date_string
\* lines 176-192: a format is the sequence of its directives and literal
\* characters
date_formatsMonthFirst ==
    <<<<"%Y", "-", "%m", "-", "%d">>,
     <<"%m", "/", "%d", "/", "%Y">>,
     <<"%d", "/", "%m", "/", "%Y">>,
     <<"%m", "-", "%d", "-", "%Y">>,
     <<"%d", "-", "%m", "-", "%Y">>,
     <<"%d", "-", "%b", "-", "%Y">>,
     <<"%d", "-", "%B", "-", "%Y">>,
     <<"%d", ".", "%m", ".", "%Y">>,
     <<"%Y", "/", "%m", "/", "%d">>,
     <<"%B", " ", "%d", ",", " ", "%Y">>,
     <<"%b", " ", "%d", ",", " ", "%Y">>,
     <<"%d", " ", "%B", " ", "%Y">>,
     <<"%d", " ", "%b", " ", "%Y">>,
     <<"%Y", "-", "%m", "-", "%d", " ", "%H", ":", "%M", ":", "%S">>,
     <<"%d", "/", "%m", "/", "%Y", " ", "%H", ":", "%M">>>>

date_formats ==
    <<<<"%Y", "-", "%m", "-", "%d">>,
     <<"%d", "/", "%m", "/", "%Y">>,
     <<"%m", "/", "%d", "/", "%Y">>,
     <<"%d", "-", "%m", "-", "%Y">>,
     <<"%m", "-", "%d", "-", "%Y">>,
     <<"%d", "-", "%b", "-", "%Y">>,
     <<"%d", "-", "%B", "-", "%Y">>,
     <<"%d", ".", "%m", ".", "%Y">>,
     <<"%Y", "/", "%m", "/", "%d">>,
     <<"%B", " ", "%d", ",", " ", "%Y">>,
     <<"%b", " ", "%d", ",", " ", "%Y">>,
     <<"%d", " ", "%B", " ", "%Y">>,
     <<"%d", " ", "%b", " ", "%Y">>,
     <<"%Y", "-", "%m", "-", "%d", " ", "%H", ":", "%M", ":", "%S">>,
     <<"%d", "/", "%m", "/", "%Y", " ", "%H", ":", "%M">>>>

\* the month names of strptime's %b and %B, in lower case
month_abbr ==
    <<<<"j", "a", "n">>,
     <<"f", "e", "b">>,
     <<"m", "a", "r">>,
     <<"a", "p", "r">>,
     <<"m", "a", "y">>,
     <<"j", "u", "n">>,
     <<"j", "u", "l">>,
     <<"a", "u", "g">>,
     <<"s", "e", "p">>,
     <<"o", "c", "t">>,
     <<"n", "o", "v">>,
     <<"d", "e", "c">>>>
month_name ==
    <<<<"j", "a", "n", "u", "a", "r", "y">>,
     <<"f", "e", "b", "r", "u", "a", "r", "y">>,
     <<"m", "a", "r", "c", "h">>,
     <<"a", "p", "r", "i", "l">>,
     <<"m", "a", "y">>,
     <<"j", "u", "n", "e">>,
     <<"j", "u", "l", "y">>,
     <<"a", "u", "g", "u", "s", "t">>,
     <<"s", "e", "p", "t", "e", "m", "b", "e", "r">>,
     <<"o", "c", "t", "o", "b", "e", "r">>,
     <<"n", "o", "v", "e", "m", "b", "e", "r">>,
     <<"d", "e", "c", "e", "m", "b", "e", "r">>>>

\* a text cut into its runs of digits, its runs of letters and its other
\* characters one by one
CharClass(c) ==
    IF IsDigit(c) THEN "digits"
    ELSE IF \E i \in 1..26 : c \in {UpperLetters[i], LowerLetters[i]} THEN "letters"
    ELSE "literal"

RECURSIVE RunLength(_, _)
RunLength(s, class) ==
    IF s # <<>> /\ CharClass(s[1]) = class THEN 1 + RunLength(Tail(s), class) ELSE 0

RECURSIVE Tokens(_)
Tokens(s) ==
    IF s = <<>> THEN <<>>
    ELSE LET class == CharClass(s[1])
             n == IF class = "literal" THEN 1 ELSE RunLength(s, class)
         IN <<[kind |-> class, chars |-> SubSeq(s, 1, n)]>> \o Tokens(SubSeq(s, n + 1, Len(s)))

\* a run of one or two digits whose number lies in lo..hi
TwoDigits(token, lo, hi) ==
    /\ token.kind = "digits"
    /\ Len(token.chars) \in 1..2
    /\ NumberOf(token.chars) \in lo..hi

\* the token is what the directive or literal character of a format reads
Reads(item, token) ==
    IF item = "%Y" THEN token.kind = "digits" /\ Len(token.chars) = 4
    ELSE IF item = "%m" THEN TwoDigits(token, 1, 12)
    ELSE IF item = "%d" THEN TwoDigits(token, 1, 31)
    ELSE IF item = "%H" THEN TwoDigits(token, 0, 23)
    ELSE IF item = "%M" THEN TwoDigits(token, 0, 59)
    ELSE IF item = "%S" THEN TwoDigits(token, 0, 61)
    ELSE IF item = "%b" THEN token.kind = "letters" /\ \E i \in 1..12 : month_abbr[i] = CharsLower(token.chars)
    ELSE IF item = "%B" THEN token.kind = "letters" /\ \E i \in 1..12 : month_name[i] = CharsLower(token.chars)
    ELSE token.kind = "literal" /\ token.chars = <<item>>

\* the number a token gives to the field of a directive
FieldValue(item, token) ==
    IF item = "%b" THEN CHOOSE i \in 1..12 : month_abbr[i] = CharsLower(token.chars)
    ELSE IF item = "%B" THEN CHOOSE i \in 1..12 : month_name[i] = CharsLower(token.chars)
    ELSE NumberOf(token.chars)

DaysIn(month, year) ==
    IF month = 2 THEN (IF year % 4 = 0 /\ (year % 100 # 0 \/ year % 400 = 0) THEN 29 ELSE 28)
    ELSE IF month \in {4, 6, 9, 11} THEN 30
    ELSE 31

\* datetime(year, month, day): ValueError when the month has no such day
Datetime(year, month, day) ==
    IF year >= 1 /\ month \in 1..12 /\ day \in 1..DaysIn(month, year)
    THEN [ok |-> TRUE, value |-> <<"datetime", year, month, day>>]
    ELSE [ok |-> FALSE, value |-> PyNone]

\* datetime.strptime(date_str, date_format) on the tokens of date_str: the
\* whole text is read by the format, item by item
strptime(tokens, date_format) ==
    LET At(items) == CHOOSE i \in 1..Len(date_format) : date_format[i] \in items
    IN IF Len(tokens) = Len(date_format) /\ \A i \in 1..Len(date_format) : Reads(date_format[i], tokens[i])
       THEN Datetime(FieldValue("%Y", tokens[At({"%Y"})]),
                     FieldValue(date_format[At({"%m", "%b", "%B"})], tokens[At({"%m", "%b", "%B"})]),
                     FieldValue("%d", tokens[At({"%d"})]))
       ELSE [ok |-> FALSE, value |-> PyNone]

\* s.replace('Z', '+00:00')
RECURSIVE ReplaceZ(_)
ReplaceZ(s) ==
    IF s = <<>> THEN s
    ELSE IF s[1] = "Z" THEN <<"+", "0", "0", ":", "0", "0">> \o ReplaceZ(Tail(s))
    ELSE <<s[1]>> \o ReplaceZ(Tail(s))

\* datetime.fromisoformat: YYYY-MM-DD, then an optional time HH:MM or
\* HH:MM:SS after one separator character, then an optional offset +HH:MM
fromisoformat(date_str) ==
    LET tokens == Tokens(date_str)
        n == Len(tokens)
        rest == SubSeq(tokens, 6, n)
        Two(token, lo, hi) == TwoDigits(token, lo, hi) /\ Len(token.chars) = 2
        IsoTime(r) ==
            /\ Len(r) \in {4, 6}
            /\ Len(r[1].chars) = 1
            /\ Two(r[2], 0, 23)
            /\ r[3].chars = <<":">>
            /\ Two(r[4], 0, 59)
            /\ Len(r) = 6 => r[5].chars = <<":">> /\ Two(r[6], 0, 59)
        IsoOffset(r) ==
            /\ Len(r) = 4
            /\ r[1].chars \in {<<"+">>, <<"-">>}
            /\ Two(r[2], 0, 23)
            /\ r[3].chars = <<":">>
            /\ Two(r[4], 0, 59)
        timeLen == IF Len(rest) >= 6 /\ IsoTime(SubSeq(rest, 1, 6)) THEN 6 ELSE 4
    IN IF /\ n >= 5
          /\ tokens[1].kind = "digits" /\ Len(tokens[1].chars) = 4
          /\ tokens[2].chars = <<"-">>
          /\ Two(tokens[3], 1, 12)
          /\ tokens[4].chars = <<"-">>
          /\ Two(tokens[5], 1, 31)
          /\ \/ rest = <<>>
             \/ IsoTime(rest)
             \/ /\ Len(rest) >= 8
                /\ IsoTime(SubSeq(rest, 1, timeLen))
                /\ IsoOffset(SubSeq(rest, timeLen + 1, Len(rest)))
       THEN Datetime(NumberOf(tokens[1].chars), NumberOf(tokens[3].chars), NumberOf(tokens[5].chars))
       ELSE [ok |-> FALSE, value |-> PyNone]

\* parse_date_string, lines 159-206: the first format of the list that reads
\* the text, then the ISO form, else DataConversionError
parse_date_string(date_str) ==
    LET text == CharsStrip(date_str)
        tokens == Tokens(text)
        reading == {i \in 1..Len(date_formats) : strptime(tokens, date_formats[i]).ok}
        first == CHOOSE i \in reading : \A j \in reading : i <= j
        iso == fromisoformat(ReplaceZ(text))
    IN IF reading # {}
       THEN [exception |-> "none", value |-> strptime(tokens, date_formats[first]).value, message |-> ""]
       ELSE IF iso.ok
       THEN [exception |-> "none", value |-> iso.value, message |-> ""]
       ELSE [exception |-> "DataConversionError", value |-> PyNone, message |-> "Unable to parse date"]

\* parsed_date.strftime("%d/%m/%Y")
strftime(parsed_date) ==
    PyStr(ZeroPadded(parsed_date[4], 2) \o <<"/">> \o ZeroPadded(parsed_date[3], 2)
          \o <<"/">> \o ZeroPadded(parsed_date[2], 4))

\* lines 70-74 and 138-142: the DATE branch
DateBranch(str_value) ==
    LET parsed_date == parse_date_string(str_value)
    IN IF parsed_date.exception = "none"
       THEN [exception |-> "none", value |-> strftime(parsed_date.value), message |-> ""]
       ELSE parsed_date

\* re.sub(r'[^\d,.-]', '', s): the digits, commas, dots and minus signs of s
RECURSIVE CurrencyChars(_)
CurrencyChars(s) ==
    IF s = <<>> THEN s
    ELSE IF IsDigit(s[1]) \/ s[1] \in {",", ".", "-"} THEN <<s[1]>> \o CurrencyChars(Tail(s))
    ELSE CurrencyChars(Tail(s))

\* parse_currency_string, lines 209-232
parse_currency_string(currency_str) ==
    LET clean_str == Without(CurrencyChars(CharsStrip(currency_str)), ",")
    IN IF ScanNumber(clean_str).ok
       THEN [exception |-> "none", message |-> "",
             value |-> <<"Decimal", ScanNumber(clean_str).coefficient, ScanNumber(clean_str).exponent>>]
       ELSE [exception |-> "DataConversionError", value |-> PyNone, message |-> "Unable to parse currency"]

true_values ==
    {<<"t", "r", "u", "e">>,
     <<"1">>,
     <<"y", "e", "s">>,
     <<"y">>,
     <<"o", "n">>,
     <<"e", "n", "a", "b", "l", "e">>,
     <<"e", "n", "a", "b", "l", "e", "d">>,
     <<"a", "c", "t", "i", "v", "e">>}
false_values ==
    {<<"f", "a", "l", "s", "e">>,
     <<"0">>,
     <<"n", "o">>,
     <<"n">>,
     <<"o", "f", "f">>,
     <<"d", "i", "s", "a", "b", "l", "e">>,
     <<"d", "i", "s", "a", "b", "l", "e", "d">>,
     <<"i", "n", "a", "c", "t", "i", "v", "e">>}

\* parse_boolean_string, lines 235-258
parse_boolean_string(bool_str) ==
    LET clean_str == CharsLower(CharsStrip(bool_str))
    IN IF clean_str \in true_values THEN [exception |-> "none", value |-> <<"bool", TRUE>>, message |-> ""]
       ELSE IF clean_str \in false_values THEN [exception |-> "none", value |-> <<"bool", FALSE>>, message |-> ""]
       ELSE [exception |-> "DataConversionError", value |-> PyNone, message |-> "Unable to parse boolean"]

Returns(value) == [exception |-> "none", value |-> value, message |-> ""]

\* lines 47 and 116: the value is None or a blank string
IsBlank(value) == value = PyNone \/ (TypeOf(value) = "str" /\ CharsStrip(value[2]) = <<>>)

\* lines 93-98 and 151-156: ValueError, TypeError and InvalidOperation leave as
\* DataConversionError with a message; any other exception leaves as it is
Reraised(result) ==
    IF result.exception \in {"ValueError", "TypeError", "InvalidOperation"}
    THEN [exception |-> "DataConversionError", value |-> PyNone, message |-> "Failed to convert"]
    ELSE result

FieldTypes == {"text", "select", "number", "date", "email", "currency", "table"}
DataTypes == {"string", "select", "integer", "float", "date", "boolean"}

\* convert_template_field_value, lines 32-98; the value is None or a str
convert_template_field_value(value, field_type) ==
    IF IsBlank(value) THEN Returns(PyNone)
    ELSE LET str_value == CharsStrip(value[2])
         IN Reraised(
              IF field_type \in {"text", "select"} THEN Returns(PyStr(str_value))
              ELSE IF field_type = "number"
              THEN (IF Contains(str_value, ".") \/ Contains(CharsLower(str_value), "e")
                    THEN FloatLiteral(Without(str_value, ","))
                    ELSE IntLiteral(Without(str_value, ",")))
              ELSE IF field_type = "date" THEN DateBranch(str_value)
              ELSE IF field_type = "email"
              THEN (IF ~Contains(str_value, "@") \/ ~Contains(str_value, ".")
                    THEN [exception |-> "DataConversionError", value |-> PyNone,
                          message |-> "Invalid email format"]
                    ELSE Returns(PyStr(CharsLower(str_value))))
              ELSE IF field_type = "currency" THEN parse_currency_string(str_value)
              ELSE IF field_type = "table" THEN Returns(value)
              ELSE Returns(PyStr(str_value)))

\* convert_sub_template_field_value, lines 101-156
convert_sub_template_field_value(value, data_type) ==
    IF IsBlank(value) THEN Returns(PyNone)
    ELSE LET str_value == CharsStrip(value[2])
         IN Reraised(
              IF data_type \in {"string", "select"} THEN Returns(PyStr(str_value))
              ELSE IF data_type = "integer" THEN IntLiteral(Without(str_value, ","))
              ELSE IF data_type = "float" THEN FloatLiteral(Without(str_value, ","))
              ELSE IF data_type = "date" THEN DateBranch(str_value)
              ELSE IF data_type = "boolean" THEN parse_boolean_string(str_value)
              ELSE Returns(PyStr(str_value)))

\* lines 278 and 300: the handler catches DataConversionError only
SafeResult(value, result) ==
    IF result.exception = "none" THEN [raised |-> FALSE, value |-> result.value, error |-> NULL]
    ELSE IF result.exception = "DataConversionError"
    THEN [raised |-> FALSE, value |-> value, error |-> result.message]
    ELSE [raised |-> TRUE, value |-> PyNone, error |-> NULL]

\* on a failure the raw value is dropped
safe_convert_template_field_valueDropsRaw(value, field_type) ==
    SafeResult(PyNone, convert_template_field_value(value, field_type))

\* safe_convert_template_field_value, lines 261-280
safe_convert_template_field_value(value, field_type) ==
    SafeResult(value, convert_template_field_value(value, field_type))

\* safe_convert_sub_template_field_value, lines 283-302
safe_convert_sub_template_field_value(value, data_type) ==
    SafeResult(value, convert_sub_template_field_value(value, data_type))

\* ------------------------------------------- one reconciliation call alone
\* the calls looked at: a SELECT field with the first n options, one score per
\* label (fuzz.WRatio of the raw value against the label: below, at and above
\* the cutoff), one behaviour of the disambiguation service
SelectInputs(n) ==
    {[done |-> FALSE, field_value |-> v, n |-> n, scores |-> sc, llm |-> l] :
        v \in {"", "raw", NUM10},
        sc \in [{Option(i).option_label : i \in 1..n} -> {39, 40, 90}],
        l \in LlmBehaviours(n)}

InitSelect ==
    /\ InitBase
    /\ \E n \in 0..MaxOptions : select_call \in SelectInputs(n)
    /\ parse_call = NoCall
    /\ convert_call = NoCall

\* map_select_field_value called on its own, as tests/test_map_select_field.py does
CallMapSelect ==
    /\ ~select_call.done
    /\ select_call.field_value # NUM10
    /\ select_call' = [select_call EXCEPT !.done = TRUE] @@
          [op |-> "map_select_field_value",
           result |-> map_select_field_value(select_call.field_value, FieldOptions(select_call.n),
                                             select_call.scores, select_call.llm)]
    /\ UNCHANGED <<docVars, rowVars, pc, attempt, ti, sessVars, outcome, attempts,
                   last_result, edits, ledgerVars, parse_call, convert_call,
                   refreshVars, ledger_op>>

\* the orchestrator's step for one SELECT field, lines 531-567
ResolveSelectField ==
    /\ ~select_call.done
    /\ select_call' = [select_call EXCEPT !.done = TRUE] @@
          [op |-> "field",
           result |-> ResolveField("select", select_call.field_value, FieldOptions(select_call.n),
                                   select_call.scores, select_call.llm)]
    /\ UNCHANGED <<docVars, rowVars, pc, attempt, ti, sessVars, outcome, attempts,
                   last_result, edits, ledgerVars, parse_call, convert_call,
                   refreshVars, ledger_op>>

NextSelect ==
    \/ CallMapSelect
    \/ ResolveSelectField

SpecSelect == InitSelect /\ [][NextSelect]_vars

\* ------------------------------------------ one parse_gemini_response call alone
\* keys and values of a JSON object in a reply

\* the JSON objects with k keys, as key/value pairs in document order
ReplyObjects(k) ==
    {ps \in [1..k -> [key : {"vendor_name", "Vendor_Name", "VENDOR_NAME", "other", "rows"},
                      value : {NULL, "ACME", "X"}]] :
        \A i, j \in 1..k : ps[i].key = ps[j].key => i = j}

\* the replies looked at: no text, an empty text, no JSON, a JSON scalar, an
\* empty JSON array, an object; the requested names are those of a template
\* with no field (extract_fields, lines 455-463) or of the flat-field call
ParseInputs ==
    {[done |-> FALSE, reply |-> r, field_names |-> fn] :
        r \in {[kind |-> "missing"], [kind |-> "empty"], [kind |-> "garbage"],
               [kind |-> "scalar"], [kind |-> "rows", rows |-> <<>>]}
              \cup {[kind |-> "object", pairs |-> ps] : ps \in UNION {ReplyObjects(k) : k \in 0..MaxKeys}},
        fn \in {<<>>, text_fields}}

InitParse ==
    /\ InitBase
    /\ select_call = NoCall
    /\ parse_call \in ParseInputs
    /\ convert_call = NoCall

\* parse_gemini_response on the reply of an extraction call, lines 463 and 519
CallParse ==
    /\ ~parse_call.done
    /\ parse_call' = [parse_call EXCEPT !.done = TRUE] @@
          [raised |-> ParseRaises(parse_call.reply, parse_call.field_names),
           result |-> parse_gemini_response(parse_call.reply, parse_call.field_names)]
    /\ UNCHANGED <<docVars, rowVars, pc, attempt, ti, sessVars, outcome, attempts,
                   last_result, edits, ledgerVars, select_call, convert_call,
                   refreshVars, ledger_op>>

NextParse == CallParse

SpecParse == InitParse /\ [][NextParse]_vars

\* ------------------------------------------------ one conversion call alone
\* the numbers of a date text
DateNumbers == {1, 2, 13, 31, 2024}

\* date texts a-b-c, a/b/c and a.b.c, the numbers with or without a leading
\* zero, with nothing, a time or an ISO time behind; and date texts with the
\* month as a word: 24-Jun-2025, 24 June 2025, June 24, 2025
DateParts ==
    {[layout |-> "numeric", sep |-> sep, a |-> a, b |-> b, c |-> c, padded |-> padded, time |-> time] :
        sep \in {"-", "/", "."}, a \in DateNumbers, b \in DateNumbers, c \in DateNumbers,
        padded \in BOOLEAN,
        time \in {<<>>, <<" ", "1", "4", ":", "3", "0", ":", "0", "0">>,
                  <<" ", "1", "4", ":", "3", "0">>,
                  <<"T", "1", "4", ":", "3", "0", ":", "0", "0", "Z">>}}
    \cup {[layout |-> layout, day |-> day, word |-> word, year |-> year] :
        layout \in {"d-b-Y", "d b Y", "b d, Y"}, day \in {1, 24, 31},
        word \in {<<"J", "u", "n">>, <<"J", "u", "n", "e">>, <<"M", "a", "y">>, <<"F", "E", "B">>},
        year \in {2025}}

\* the text of a date
DateText(parts) ==
    LET Written(n) == IF parts.padded THEN ZeroPadded(n, 2) ELSE DigitsOf(n)
    IN IF parts.layout = "numeric"
    THEN Written(parts.a) \o <<parts.sep>> \o Written(parts.b)
         \o <<parts.sep>> \o Written(parts.c) \o parts.time
    ELSE IF parts.layout = "d-b-Y"
    THEN DigitsOf(parts.day) \o <<"-">> \o parts.word \o <<"-">> \o DigitsOf(parts.year)
    ELSE IF parts.layout = "d b Y"
    THEN DigitsOf(parts.day) \o <<" ">> \o parts.word \o <<" ">> \o DigitsOf(parts.year)
    ELSE parts.word \o <<" ">> \o DigitsOf(parts.day) \o <<",", " ">> \o DigitsOf(parts.year)

\* raw texts that are no dates
PlainTexts ==
    {<<>>,
     <<" ", " ">>,
     <<"1", "0">>,
     <<" ", "1", "0", " ">>,
     <<"4", "2", ".", "5">>,
     <<"1", ",", "2", "3", "4">>,
     <<"1", "e", "3">>,
     <<"-", "3">>,
     <<"n", "o", "t", "-", "a", "-", "n", "u", "m", "b", "e", "r">>,
     <<"n", "a", "n">>,
     <<"U", "s", "e", "r", "@", "E", "x", "a", "m", "p", "l", "e", ".", "c", "o", "m">>,
     <<"i", "n", "v", "a", "l", "i", "d", "-", "e", "m", "a", "i", "l">>,
     <<"$", "1", ",", "2", "3", "4", ".", "5", "6">>,
     <<"a", "b", "c">>,
     <<"Y", "e", "s">>,
     <<"t", "r", "u", "e">>,
     <<"0">>,
     <<"m", "a", "y", "b", "e">>}

\* the calls looked at: a field (FieldType) or a table column (DataType) of a
\* declared type with a raw value
ConvertInputs ==
    {[done |-> FALSE, level |-> "field", declared_type |-> t, value |-> v, parts |-> [layout |-> "plain"]] :
        t \in FieldTypes, v \in {PyNone} \cup {PyStr(s) : s \in PlainTexts}}
    \cup {[done |-> FALSE, level |-> "sub_field", declared_type |-> t, value |-> v, parts |-> [layout |-> "plain"]] :
        t \in DataTypes, v \in {PyNone} \cup {PyStr(s) : s \in PlainTexts}}
    \cup {[done |-> FALSE, level |-> l, declared_type |-> "date", value |-> PyStr(DateText(p)), parts |-> p] :
        l \in {"field", "sub_field"}, p \in DateParts}

InitConvert ==
    /\ InitBase
    /\ select_call = NoCall
    /\ parse_call = NoCall
    /\ convert_call \in ConvertInputs

\* the raising and the safe conversion of a field value,
\* tests/test_data_conversion.py
ConvertField ==
    /\ ~convert_call.done
    /\ convert_call.level = "field"
    /\ convert_call' = [convert_call EXCEPT !.done = TRUE] @@
          [op |-> "convert",
           strict |-> convert_template_field_value(convert_call.value, convert_call.declared_type),
           safe |-> safe_convert_template_field_value(convert_call.value, convert_call.declared_type)]
    /\ UNCHANGED <<docVars, rowVars, pc, attempt, ti, sessVars, outcome, attempts,
                   last_result, edits, ledgerVars, select_call, parse_call,
                   refreshVars, ledger_op>>

\* the raising and the safe conversion of a table cell
ConvertSubField ==
    /\ ~convert_call.done
    /\ convert_call.level = "sub_field"
    /\ convert_call' = [convert_call EXCEPT !.done = TRUE] @@
          [op |-> "convert",
           strict |-> convert_sub_template_field_value(convert_call.value, convert_call.declared_type),
           safe |-> safe_convert_sub_template_field_value(convert_call.value, convert_call.declared_type)]
    /\ UNCHANGED <<docVars, rowVars, pc, attempt, ti, sessVars, outcome, attempts,
                   last_result, edits, ledgerVars, select_call, parse_call,
                   refreshVars, ledger_op>>

\* the orchestrator's step for one field or cell of the declared type whose
\* extracted value is not None, ocr_routes.py lines 531-562 and 610-649; a
\* table field is not among the text fields
ProcessTypedField ==
    /\ ~convert_call.done
    /\ convert_call.value # PyNone
    /\ convert_call.declared_type # "table"
    /\ convert_call' = [convert_call EXCEPT !.done = TRUE] @@
          [op |-> "process",
           result |-> ResolveField(convert_call.declared_type, convert_call.value, <<>>, NoScores, NoLlm)]
    /\ UNCHANGED <<docVars, rowVars, pc, attempt, ti, sessVars, outcome, attempts,
                   last_result, edits, ledgerVars, select_call, parse_call,
                   refreshVars, ledger_op>>

NextConvert ==
    \/ ConvertField
    \/ ConvertSubField
    \/ ProcessTypedField

SpecConvert == InitConvert /\ [][NextConvert]_vars

\* the handlers of process p, with table replies of at most n rows
Handler(p, n) ==
    \/ Enter(p)
    \/ FlatCall(p)
    \/ TableCall(p, n)
    \/ Finish(p)
    \/ Reprocess(p)

\* process and reprocess requests served one at a time
Next == Handler(1, MaxRows)

Spec == Init /\ [][Next]_vars

\* the pipeline next to the edit requests of a user
NextEdit ==
    \/ Handler(1, 1)
    \/ Edit

SpecEdit == Init /\ [][NextEdit]_vars

\* two requests served at the same time
NextConc ==
    \/ \E p \in Procs : Handler(p, 0)
    \/ \E s \in DocumentStatus : UpdateDocument(s)

SpecConc == Init /\ [][NextConc]_vars

\* the pipeline next to the ledger operations
NextMeter ==
    \/ Handler(1, 0)
    \/ deduct_credits_for_ocr
    \/ refund_credits_for_failed_ocr
    \/ add_credits_to_user(1)

SpecMeter == Init /\ [][NextMeter]_vars

\* two requests in the credit operations at once
NextLedger ==
    \E p \in Procs :
        \/ \E cost \in {DEFAULT_OCR_COST, 2} : DeductCredits(p, cost)
        \/ RefundCredits(p)
        \/ AddCredits(p, 1)
        \/ commit_or_rollback(p)

SpecLedger == Init /\ [][NextLedger]_vars

\* reloads of the options of a SELECT field next to the reads of the pipeline
NextRefresh ==
    \/ ClearExisting
    \/ FetchLedgers
    \/ AddOption
    \/ CommitOptions
    \/ ReadFieldOptions

SpecRefresh == Init /\ [][NextRefresh]_vars

\* ==================================================================== claims
\* a handler is between its PENDING->PROCESSING commit and its terminal commit
InFlight(p) == pc[p] \in {"flat", "table"}

\* the attempt of handler p has returned with success and nothing ran since
Succeeded(p) == pc[p] = "idle" /\ attempt[p] > 0 /\ last_result.att = attempt[p]

AllowedEdges ==
    {<<PENDING, PROCESSING>>, <<PROCESSING, PROCESSED>>, <<PROCESSING, FAILED>>,
     <<PROCESSED, PENDING>>, <<FAILED, PENDING>>}

\* C1: the status of the document only moves along the edges PENDING->PROCESSING,
\* PROCESSING->PROCESSED, PROCESSING->FAILED, PROCESSED->PENDING and
\* FAILED->PENDING, whatever process, reprocess and update requests are made.
C1_StatusEdges == [][status' # status => <<status, status'>> \in AllowedEdges]_vars

\* C2: while one handler is in flight for the document, no other handler enters
\* PROCESSING or runs the purge of reprocess.
C2_OneAttemptInFlight ==
    [][\A p, q \in Procs :
          (p # q /\ InFlight(q)) =>
             ~(pc[p] \in {"idle", "enter"} /\ pc'[p] \in {"enter", "flat"})]_vars

\* C3: the purge of reprocess leaves no OCRData, OCRLineItem or OCRLineItemValue
\* row behind before the new attempt writes, every stored cell has a stored
\* parent row, and that parent was created by the same attempt as the cell.
C3_ReprocessPurgesAll ==
    /\ \A p \in Procs : pc[p] = "enter" =>
          ocr_data = <<>> /\ ocr_line_items = {} /\ ocr_line_item_values = {}
    /\ \A v \in ocr_line_item_values :
          \E r \in ocr_line_items : r.ocr_items_id = v.ocr_items_id /\ r.att = v.att

\* C4: when the latest attempt succeeded and nothing was edited, the table data
\* reconstructed from the stored rows equals the table data the processing call
\* returned.
C4_TableRoundTrip ==
    (Succeeded(1) /\ last_result.att = attempts /\ edits = 0) =>
        reconstruct_table_data_from_db = last_result.table_data

\* C5: a record with both predicted_value and actual_value set is shown with its
\* actual_value by the document read path and by the Tally read path, for
\* OCRData rows and for table cells.
C5_ActualWins ==
    /\ \A i \in 1..Len(ocr_data) :
          (/\ Truthy(ocr_data[i].predicted_value)
           /\ Truthy(ocr_data[i].actual_value)
           /\ \A j \in 1..Len(ocr_data) : ocr_data[j].field = ocr_data[i].field => j = i)
          => /\ get_document_ocr_results.extracted_data[ocr_data[i].field] = ocr_data[i].actual_value
             /\ get_document_ocr_data.extracted_data[ocr_data[i].field] = ocr_data[i].actual_value
    /\ \A v \in ocr_line_item_values :
          (/\ Truthy(v.predicted_value)
           /\ Truthy(v.actual_value)
           /\ \A w \in ocr_line_item_values :
                 (w.ocr_items_id = v.ocr_items_id /\ w.sub_field = v.sub_field) => w = v)
          => \A r \in ocr_line_items : r.ocr_items_id = v.ocr_items_id =>
                /\ RowData(r, "document")[v.sub_field] = v.actual_value
                /\ RowData(r, "tally")[v.sub_field] = v.actual_value

RECURSIVE SumAmounts(_, _)
SumAmounts(txns, type) ==
    IF txns = <<>> THEN 0
    ELSE (IF Head(txns).reference_type = type /\ Head(txns).reference_id = DocId
          THEN Head(txns).amount ELSE 0) + SumAmounts(Tail(txns), type)

TotalCharged == 0 - SumAmounts(transactions, "document")
TotalRefunded == SumAmounts(transactions, "document_refund")

\* C6: over any sequence of charge and refund calls the total refunded for the
\* document never exceeds the total charged for it (a second refund of the same
\* charge changes nothing).
C6_RefundIdempotent == TotalRefunded <= TotalCharged

\* C7: an attempt that ended PROCESSED has a charge recorded for the document, and
\* an attempt that ended FAILED has a refund recorded for it.
C7_MeteringFollowsStatus ==
    \A p \in Procs : (pc[p] = "idle" /\ attempt[p] > 0) =>
        /\ status = PROCESSED => TotalCharged > 0
        /\ status = FAILED => TotalRefunded > 0

\* C8: the document is never PROCESSING while its owner has fewer credits than
\* the processing cost.
C8_SufficiencyGate == status = PROCESSING => credits >= DEFAULT_OCR_COST

\* the OCRData rows of attempt a, as (field, predicted_value) pairs
RECURSIVE Predicted(_, _)
Predicted(rows, a) ==
    IF rows = <<>> THEN <<>>
    ELSE (IF Head(rows).att = a THEN <<<<Head(rows).field, Head(rows).predicted_value>>>> ELSE <<>>)
         \o Predicted(Tail(rows), a)

C10_TableCallFailureIsolated ==
    [][\A p \in Procs : \A t \in Range(table_fields) :
          (outcome[p][t] = "none" /\ outcome'[p][t] = "raise") =>
             status' # FAILED /\ pc'[p] = "table"]_vars

\* C11: an attempt that met a missing file, a template without fields, a parse
\* error on the flat-field reply or an exception while persisting has left the
\* document FAILED and has stored no OCRData row.
C11_FailedCases ==
    \A p \in Procs :
        (pc[p] = "idle" /\ outcome[p]["end"] \in {"no_file", "no_fields", "parse_error", "persist_error"})
        => /\ status = FAILED
           /\ \A i \in 1..Len(ocr_data) : ocr_data[i].att # attempt[p]

\* C12: from the acceptance of a processing request to its terminal transition
\* the stored status is PROCESSING, and the missing-file path takes the document
\* from PROCESSING to FAILED.
C12_ProcessingBeforeFileCheck ==
    /\ [](\A p \in Procs : InFlight(p) => status = PROCESSING)
    /\ [][\A p \in Procs :
            (outcome[p]["end"] # "no_file" /\ outcome'[p]["end"] = "no_file")
            => (status = PROCESSING /\ status' = FAILED)]_vars

\* C12 witness: an attempt has ended on the missing-file path
C12_Witness ==
    /\ pc[1] = "idle"
    /\ attempt[1] > 0
    /\ outcome[1]["end"] = "no_file"
    /\ status = FAILED

\* C13: a PROCESSED document has processed_at set, and a document reset to
\* PENDING by reprocess has processed_at cleared.
C13_ProcessedAt ==
    /\ status = PROCESSED => processed_at
    /\ (status = PENDING /\ \E p \in Procs : pc[p] = "enter") => ~processed_at

\* C14: no two stored OCRLineItem rows of the document and the same table field
\* carry the same row_index.
C14_RowIndexUnique ==
    \A r, q \in ocr_line_items :
        (r.field = q.field /\ r.row_index = q.row_index) => r = q

\* the reconciliation call of the state: its options, and how option i ranks
CallOptions == FieldOptions(select_call.n)
ScoreOf(i) == select_call.scores[Option(i).option_label]
Ahead(i) == {j \in 1..select_call.n :
               ScoreOf(j) >= 40 /\ (ScoreOf(j) > ScoreOf(i) \/ (ScoreOf(j) = ScoreOf(i) /\ j < i))}

\* the option values offered to the disambiguation model: those of the at most
\* 5 best labels scoring at least 40
OfferedValues ==
    {Option(i).option_value : i \in {k \in 1..select_call.n : ScoreOf(k) >= 40 /\ Cardinality(Ahead(k)) < 5}}

\* the value of the best-scoring label
TopValues == {Option(i).option_value : i \in {k \in 1..select_call.n : ScoreOf(k) >= 40 /\ Ahead(k) = {}}}

MapSelectDone == select_call.done /\ select_call.op = "map_select_field_value"
FieldDone == select_call.done /\ select_call.op = "field"
NoLabelClears == select_call.n > 0 /\ \A i \in 1..select_call.n : ScoreOf(i) < 40
SomeLabelClears == \E i \in 1..select_call.n : ScoreOf(i) >= 40

\* C15: with a non-empty vocabulary of which no label scores at least 40,
\* map_select_field_value returns None without consulting the disambiguation
\* model, and returns None for every behaviour of that model.
C15_FuzzyFloor ==
    (MapSelectDone /\ NoLabelClears) =>
        /\ select_call.result.value = NULL
        /\ ~select_call.result.llm_called
        /\ \A l \in LlmBehaviours(select_call.n) :
              map_select_field_value(select_call.field_value, CallOptions, select_call.scores, l).value = NULL

\* C15 witness: no label clears the floor and the model would have answered
\* with a vocabulary value
C15_Witness ==
    /\ MapSelectDone
    /\ NoLabelClears
    /\ select_call.field_value = "raw"
    /\ select_call.llm = [kind |-> "text", text |-> "V1"]
    /\ select_call.result.value = NULL

Unreachable == select_call.llm.kind \in {"no_key", "raise", "empty"}

\* the model answered with something that is not an offered value
NotOffered == select_call.llm.kind = "text" /\ Strip(select_call.llm.text) \notin OfferedValues

\* the model answered NONE
AnsweredNone == select_call.llm.kind = "text" /\ Upper(Strip(select_call.llm.text)) = "NONE"

\* C17 as stated: when a candidate cleared the floor and the model is
\* unreachable or answers with something that is not an offered value,
\* map_select_field_value returns the value of the top-scoring candidate and
\* does not raise, and the field's step does not raise.
C17_DisambiguationFallback ==
    (select_call.done /\ Truthy(select_call.field_value) /\ SomeLabelClears
        /\ (Unreachable \/ NotOffered)) =>
        /\ ~select_call.result.raised
        /\ MapSelectDone => select_call.result.value \in TopValues
        /\ FieldDone => select_call.result.final_value \in TopValues

\* C17 amended: the same, for answers that are neither an offered value nor the
\* token NONE in any letter case; the answer NONE resolves to no mapping.
C17_FallbackUnlessNone ==
    (select_call.done /\ Truthy(select_call.field_value) /\ SomeLabelClears) =>
        /\ ~select_call.result.raised
        /\ (Unreachable \/ (NotOffered /\ ~AnsweredNone)) =>
              /\ MapSelectDone => select_call.result.value \in TopValues
              /\ FieldDone => select_call.result.final_value \in TopValues
        /\ (AnsweredNone /\ MapSelectDone) => select_call.result.value = NULL

\* C17 witness: the call of the model raised and the best fuzzy match was returned
C17_Witness ==
    /\ MapSelectDone
    /\ select_call.llm.kind = "raise"
    /\ select_call.n > 1
    /\ ScoreOf(1) = 40
    /\ ScoreOf(2) = 90
    /\ select_call.result.value = "V2"

\* C18: with a non-empty vocabulary, map_select_field_value returns None or the
\* option value of one of the at most 5 best candidates scoring at least 40.
C18_CandidateOnly ==
    (MapSelectDone /\ select_call.n > 0) =>
        (select_call.result.value = NULL \/ select_call.result.value \in OfferedValues)

\* C18 witness: more than 5 labels clear the floor, the model answers with the
\* value of one that was not offered, and an offered value is returned
C18_Witness ==
    /\ MapSelectDone
    /\ select_call.n > 5
    /\ \A i \in 1..select_call.n : ScoreOf(i) >= 40
    /\ select_call.llm.kind = "text"
    /\ select_call.llm.text \in {Option(i).option_value : i \in 1..select_call.n} \ OfferedValues
    /\ select_call.result.value \in OfferedValues

\* C19: when a SELECT field has options and its raw value resolves to no
\* mapping, the value reported and stored for the field is null and mapped is
\* false.
C19_NoMappingIsNull ==
    (FieldDone /\ select_call.n > 0
        /\ map_select_field_value(Str(select_call.field_value), CallOptions,
                                  select_call.scores, select_call.llm).value = NULL) =>
        /\ select_call.result.final_value = NULL
        /\ select_call.result.predicted_value = NULL
        /\ ~select_call.result.was_mapped

\* the values a reply object carries under the key k, and under the keys equal
\* to the name f ignoring case
UnderKey(k) ==
    {parse_call.reply.pairs[i].value :
        i \in {j \in 1..Len(parse_call.reply.pairs) : parse_call.reply.pairs[j].key = k}}
UnderKeyIgnoringCase(f) ==
    {parse_call.reply.pairs[i].value :
        i \in {j \in 1..Len(parse_call.reply.pairs) : Lower(parse_call.reply.pairs[j].key) = Lower(f)}}

\* C20: for a reply that is a JSON object, the result has every requested name
\* as a key, mapped to the value under that exact key, otherwise to the value
\* under a key equal ignoring case, otherwise to null.
C20_ResponseNormalization ==
    (parse_call.done /\ parse_call.reply.kind = "object") =>
        \A f \in Range(parse_call.field_names) :
            /\ f \in DictKeys(parse_call.result)
            /\ IF UnderKey(f) # {} THEN DictGet(parse_call.result, f) \in UnderKey(f)
               ELSE IF UnderKeyIgnoringCase(f) # {}
               THEN DictGet(parse_call.result, f) \in UnderKeyIgnoringCase(f)
               ELSE DictGet(parse_call.result, f) = NULL

\* C21: parse_gemini_response never raises, and for a reply from which no JSON
\* of the expected kind can be recovered (no text, an empty text, a text that
\* is no JSON, a JSON scalar) the result carries parse_error and the raw reply.
C21_ParseNeverRaises ==
    parse_call.done =>
        /\ ~parse_call.raised
        /\ parse_call.reply.kind \in {"missing", "empty", "garbage", "scalar"} =>
              /\ "parse_error" \in DictKeys(parse_call.result)
              /\ "raw_response" \in DictKeys(parse_call.result)
              /\ DictGet(parse_call.result, "raw_response") = ResponseText(parse_call.reply)
\* the conversions of the call, and its steps
Converted == convert_call.done /\ convert_call.op = "convert"
DateConverted == Converted /\ convert_call.declared_type = "date"
SafeOfCall ==
    IF convert_call.level = "field"
    THEN safe_convert_template_field_value(convert_call.value, convert_call.declared_type)
    ELSE safe_convert_sub_template_field_value(convert_call.value, convert_call.declared_type)

\* C22: what the processing of a document reports for a field or cell is the
\* value coerced to the declared type (the raw value where the coercion
\* fails), and a coerced string is what is stored.
C22_CoercedBeforePersisted ==
    (convert_call.done /\ convert_call.op = "process") =>
        /\ convert_call.result.final_value = SafeOfCall.value
        /\ TypeOf(SafeOfCall.value) = "str" => convert_call.result.predicted_value = SafeOfCall.value

\* the orders in which a text a<sep>b<sep>c is read, first to last
AcceptedOrders(parts) ==
    IF parts.sep = "-" /\ parts.time = <<>> THEN <<"YMD", "DMY", "MDY">>
    ELSE IF parts.sep = "/" /\ parts.time = <<>> THEN <<"DMY", "MDY", "YMD">>
    ELSE IF parts.sep = "." /\ parts.time = <<>> THEN <<"DMY">>
    ELSE IF parts.sep = "-" /\ parts.time = <<" ", "1", "4", ":", "3", "0", ":", "0", "0">> THEN <<"YMD">>
    ELSE IF parts.sep = "/" /\ parts.time = <<" ", "1", "4", ":", "3", "0">> THEN <<"DMY">>
    ELSE IF parts.sep = "-" /\ (parts.padded \/ (parts.b >= 10 /\ parts.c >= 10)) THEN <<"YMD">>
    ELSE <<>>

\* the calendar date of a text under an order, as <<day, month, year>>
ReadAs(order, parts) ==
    IF order = "YMD" THEN <<parts.c, parts.b, parts.a>>
    ELSE IF order = "DMY" THEN <<parts.a, parts.b, parts.c>>
    ELSE <<parts.b, parts.a, parts.c>>

IsCalendarDate(dmy) ==
    /\ dmy[3] \in 1000..9999
    /\ dmy[2] \in 1..12
    /\ dmy[1] \in 1..(IF dmy[2] = 2 THEN (IF dmy[3] % 4 = 0 THEN 29 ELSE 28)
                     ELSE IF dmy[2] \in {4, 6, 9, 11} THEN 30 ELSE 31)

MonthOfWord(word) ==
    IF word \in {<<"J", "u", "n">>, <<"J", "u", "n", "e">>} THEN 6 ELSE IF word = <<"M", "a", "y">> THEN 5 ELSE 2

\* the calendar dates the text of the call can stand for, in the order of the
\* accepted formats
DateReadings ==
    IF convert_call.parts.layout = "plain" THEN <<>>
    ELSE IF convert_call.parts.layout = "numeric"
    THEN LET orders == AcceptedOrders(convert_call.parts)
             valid == {i \in 1..Len(orders) : IsCalendarDate(ReadAs(orders[i], convert_call.parts))}
         IN [i \in 1..Len(SelectSeqBy(orders, {orders[j] : j \in valid})) |->
                ReadAs(SelectSeqBy(orders, {orders[j] : j \in valid})[i], convert_call.parts)]
    ELSE LET dmy == <<convert_call.parts.day, MonthOfWord(convert_call.parts.word), convert_call.parts.year>>
         IN IF IsCalendarDate(dmy) THEN <<dmy>> ELSE <<>>

\* DD/MM/YYYY
Canonical(dmy) ==
    PyStr(ZeroPadded(dmy[1], 2) \o <<"/">> \o ZeroPadded(dmy[2], 2) \o <<"/">> \o ZeroPadded(dmy[3], 4))

LatestVocabulary == vocabularies[Len(vocabularies)]

\* C25: a read of a field's options that runs while the options are reloaded
\* returns a complete option set, the one from before the reload or the one
\* the reload has committed, never the emptied or a partly inserted set; a
\* reload whose fetch from Tally (or whose commit) fails leaves the committed
\* options as they were.
C25_SnapshotReads ==
    [][/\ reconciliation_read' # reconciliation_read =>
             reconciliation_read'.field_options = LatestVocabulary
       /\ (refresh_session.pc # "idle" /\ refresh_session'.pc = "idle"
           /\ refresh_session'.result = "failed") =>
             /\ field_option_rows' = LatestVocabulary
             /\ vocabularies' = vocabularies]_vars

\* C25 witness: the pipeline has read a non-empty option set while a reload
\* stood between its delete and its commit, after an earlier reload had
\* committed
C25_Witness ==
    /\ reconciliation_read.done
    /\ reconciliation_read.refresh_pc \in {"deleted", "adding"}
    /\ refresh_session.pc = reconciliation_read.refresh_pc
    /\ reconciliation_read.field_options # {}
    /\ Len(vocabularies) > 1

\* C26: every attempt that committed PROCESSING has left the document PROCESSED
\* or FAILED when process_document_internal has returned, also when the commit
\* of the results raised and when the write of FAILED in the except handler
\* raised.
C26_AttemptEndsTerminal ==
    \A p \in Procs :
        (pc[p] = "idle" /\ attempt[p] > 0 /\ outcome[p]["end"] # "none")
        => status \in {PROCESSED, FAILED}

\* C27: an attempt that ended FAILED has left no OCRLineItem and no
\* OCRLineItemValue row of that attempt committed.
C27_FailedLeavesNoRows ==
    \A p \in Procs :
        (pc[p] = "idle" /\ attempt[p] > 0 /\ status = FAILED
         /\ outcome[p]["end"] \notin {"none", "ok"})
        => /\ \A r \in ocr_line_items : r.att # attempt[p]
           /\ \A v \in ocr_line_item_values : v.att # attempt[p]

RECURSIVE LedgerSum(_)
LedgerSum(txns) == IF txns = <<>> THEN 0 ELSE Head(txns).amount + LedgerSum(Tail(txns))

\* C28: whatever way deductions, refunds and additions of two requests
\* interleave, the user's credits_remaining equals the initial balance (1) plus
\* the sum of the amounts of the committed transactions, and each committed
\* transaction has balance_after = balance_before + amount.
C28_LedgerConsistent ==
    /\ credits = 1 + LedgerSum(transactions)
    /\ \A i \in 1..Len(transactions) :
          transactions[i].balance_after = transactions[i].balance_before + transactions[i].amount

\* C29: credits_remaining is never negative, whatever way the operations of two
\* requests interleave, and a deduction whose cost is above the balance it reads
\* fails and changes nothing.
C29_NeverNegative ==
    /\ [](/\ credits >= 0
          /\ \A i \in 1..Len(transactions) : transactions[i].balance_after >= 0)
    /\ [][\A p \in Procs :
            (/\ ledger_op[p].pc = "idle"
             /\ ledger_op'[p] # ledger_op[p]
             /\ ledger_op'[p].reference_type = "document"
             /\ ledger_op'[p].cost > credits)
            => /\ ledger_op'[p].pc = "idle"
               /\ ledger_op'[p].message = "Insufficient credits"
               /\ UNCHANGED <<credits, transactions>>]_vars

\* C29 witness: two deductions that read the same balance have both committed,
\* the balance is 0 and a further deduction has been refused
C29_Witness ==
    /\ credits = 0
    /\ \E i, j \in 1..Len(transactions) :
          /\ i < j
          /\ transactions[i].reference_type = "document"
          /\ transactions[j].reference_type = "document"
          /\ transactions[i].balance_before = transactions[j].balance_before
    /\ \E p \in Procs : ledger_op[p].pc = "idle" /\ ledger_op[p].message = "Insufficient credits"

\* C30: after an edit of a field or of a table cell, the empty string included,
\* the document read path shows the edited value for it, and no edit changes a
\* predicted_value.
C30_ReadYourEdit ==
    /\ [](/\ \A i \in 1..Len(ocr_data) :
                (/\ ocr_data[i].actual_value # NULL
                 /\ \A j \in 1..Len(ocr_data) : ocr_data[j].field = ocr_data[i].field => j = i)
                => get_document_ocr_results.extracted_data[ocr_data[i].field] = ocr_data[i].actual_value
          /\ \A v \in ocr_line_item_values :
                (/\ v.actual_value # NULL
                 /\ \A w \in ocr_line_item_values :
                       (w.ocr_items_id = v.ocr_items_id /\ w.sub_field = v.sub_field) => w = v)
                => \A r \in ocr_line_items : r.ocr_items_id = v.ocr_items_id =>
                      RowData(r, "document")[v.sub_field] = v.actual_value)
    /\ [][edits' # edits =>
            /\ Len(ocr_data') = Len(ocr_data)
            /\ \A i \in 1..Len(ocr_data) : ocr_data'[i].predicted_value = ocr_data[i].predicted_value
            /\ {<<v.ocr_items_id, v.sub_field, v.att, v.predicted_value>> : v \in ocr_line_item_values'}
                  = {<<v.ocr_items_id, v.sub_field, v.att, v.predicted_value>> : v \in ocr_line_item_values}]_vars

====
